---------------------------- MODULE Spec2Model ----------------------------
(***************************************************************************)
(* A model of the statistical anomaly-detection pipeline of rct-checker:   *)
(* run_test_pipeline (src/src/statistical_analysis/pipeline.py) with the   *)
(* functions it calls: to_csv_wide, process_continuous_variables_mean,     *)
(* process_categorical_variables, contingency_table_binary and             *)
(* chi_square_variance_test.                                               *)
(*                                                                         *)
(* Numbers.  JSON numbers are integers here; a float is an exact rational  *)
(* [num, den].  A JSON null is Null; a missing cell of a DataFrame is NaN. *)
(* Sample sizes are perfect squares, so np.sqrt is exact.  A p-value p is  *)
(* the integer p * PScale; the sub-tests produce 0 and the powers of two   *)
(* 2^-e, e <= MaxExp, so that the logarithm of Fisher's method is exact in *)
(* units of ln 2.                                                          *)
(*                                                                         *)
(* Library calls (scipy.stats.chi2.cdf, scipy.stats.fisher_exact) return   *)
(* values the source does not determine: each is a choice from a small set *)
(* made by the action that calls it.  fisher_exact may also hand back a    *)
(* value outside [0, 1], the defect that pipeline.py:154 guards against.   *)
(*                                                                         *)
(* Inputs.  group ids are distinct and a value entry names a declared      *)
(* group (validate_output.py:76, 224); no group id contains the text of a  *)
(* column suffix ("mean", "count", "zscore").  A row may lack the entry of *)
(* a group, and any numeric field may be null.                             *)
(*                                                                         *)
(* Specifications.  Spec is one call of run_test_pipeline.  TwoRunSpec is  *)
(* two calls in a row on the same input and flags, with scipy held to be a *)
(* function of its arguments and of the seed of its generator.  EngineSpec *)
(* is one call of process_continuous_variables_mean or of                  *)
(* process_categorical_variables on a projected table, with sample sizes   *)
(* that may be zero, negative or unequal.                                  *)
(* FlagPairSpec is two calls in a row that differ in skip_continuous_var   *)
(* only.  LibrarySpec is one direct call of chi_square_variance_test,      *)
(* contingency_table_binary or to_csv_wide.  AnalyzeSpec is the loop of    *)
(* cmd_analyze (src/main.py) over a batch of items, with the report of     *)
(* report.py.  RepairSpec is one call of LLMBackend.extract_with_repair    *)
(* (table_extraction/llm/base.py).  StoreSpec is a sequence of calls of    *)
(* add_extraction (database/operations.py) on an empty table.              *)
(*                                                                         *)
(* Left out.  Every column of a DataFrame holds floats (the object dtype   *)
(* pandas gives a column of None only is not modelled); the text of an     *)
(* error message leaves out the group it names; logging.                   *)
(***************************************************************************)
EXTENDS Integers, Sequences, FiniteSets, TLC

\* ------------------------------------------------------------------------
\* Bounds of the model
\* ------------------------------------------------------------------------
MaxGroups == 3
MaxRows == 2
MaxExp == 2
\* the longest array of z-scores given to chi_square_variance_test directly
MaxZLen == 3
\* the most items cmd_analyze is given
MaxItems == 3
\* the largest max_attempts extract_with_repair is given
MaxAttempts == 4
\* the most calls of add_extraction in a run
MaxCalls == 3

PScale == 2 ^ MaxExp

GroupNames == <<"g1", "g2", "g3", "g4", "g5">>

\* None, and a value that is not None (an optional value is a sequence of
\* length at most one, so that both kinds compare)
Null == <<>>
Some(x) == <<x>>
Val(o) == o[1]
\* the missing-value marker of a DataFrame, and a float
NaN == [nan |-> TRUE, num |-> 0, den |-> 1]
NoError == "no error"
NoResult == [returned |-> FALSE]

\* ------------------------------------------------------------------------
\* Exact rational arithmetic (the floats of numpy / pandas)
\* ------------------------------------------------------------------------
Abs(x) == IF x < 0 THEN -x ELSE x

RECURSIVE GCD(_, _)
GCD(a, b) == IF b = 0 THEN a ELSE GCD(b, a % b)

Rat(n, d) ==
    LET g == GCD(Abs(n), Abs(d))
        s == IF d < 0 THEN -1 ELSE 1
    IN  [nan |-> FALSE, num |-> (s * n) \div g, den |-> (s * d) \div g]

Float(x) == [nan |-> FALSE, num |-> x, den |-> 1]
RAdd(a, b) ==
    LET g == GCD(a.den, b.den)
    IN  Rat(a.num * (b.den \div g) + b.num * (a.den \div g), a.den * (b.den \div g))
RNeg(a) == [a EXCEPT !.num = -a.num]
RSub(a, b) == RAdd(a, RNeg(b))
RMul(a, b) ==
    LET g == GCD(Abs(a.num), b.den)
        h == GCD(Abs(b.num), a.den)
    IN  Rat((a.num \div g) * (b.num \div h), (a.den \div h) * (b.den \div g))
RInv(a) == Rat(a.den, a.num)
RDiv(a, b) == RMul(a, RInv(b))
RIsZero(a) == a.num = 0

RECURSIVE RSum(_)
RSum(s) == IF s = <<>> THEN Float(0) ELSE RAdd(Head(s), RSum(Tail(s)))

\* np.sqrt on the perfect squares the model uses
Sqrt(n) == CHOOSE r \in 0..n : r * r = n

RECURSIVE Flatten(_)
Flatten(ss) == IF ss = <<>> THEN <<>> ELSE Head(ss) \o Flatten(Tail(ss))

Range(s) == {s[i] : i \in DOMAIN s}

\* ------------------------------------------------------------------------
\* The inputs: extraction JSON, flags, seed
\* ------------------------------------------------------------------------
Fields == {"mean", "sd", "95CI_lower", "95CI_upper", "count"}

Entry(mean, sd, lo, hi, count) ==
    [present |-> TRUE, mean |-> mean, sd |-> sd, ci_lower |-> lo, ci_upper |-> hi,
     count |-> count]

AbsentEntry ==
    [present |-> FALSE, mean |-> Null, sd |-> Null, ci_lower |-> Null,
     ci_upper |-> Null, count |-> Null]

\* what every group of a row reports, k the position of the group
BaseKinds == {"mean_sd", "median_only", "count"}

BaseType(kind) == IF kind \in {"mean_sd", "median_only"} THEN "Continuous" ELSE "Categorical"

BaseEntry(kind, k) ==
    CASE kind = "mean_sd" -> Entry(Some(k), Some(1), Null, Null, Null)
      [] kind = "median_only" -> Entry(Null, Null, Null, Null, Null)
      [] kind = "count" -> Entry(Null, Null, Null, Null, Some(k - 1))

\* the sample size of a group that has one (a perfect square)
BaseSize == 2 ^ 2

\* the one cell of a table that may differ from its row's base
ContinuousDeviants ==
    { AbsentEntry,
      Entry(Some(1), Some(1), Null, Null, Null),
      Entry(Some(1), Some(0), Null, Null, Null),
      Entry(Some(1), Null, Some(0), Some(2), Null),
      Entry(Some(1), Null, Some(2), Some(2), Null),
      Entry(Some(1), Null, Some(0), Null, Null),
      Entry(Some(1), Null, Null, Null, Null),
      Entry(Null, Some(1), Null, Null, Null) }

CategoricalDeviants ==
    { AbsentEntry,
      Entry(Null, Null, Null, Null, Null),
      Entry(Null, Null, Null, Null, Some(BaseSize + 1)) }

Deviants(kind) ==
    IF BaseType(kind) = "Continuous" THEN ContinuousDeviants ELSE CategoricalDeviants

\* sample sizes of ng groups: all BaseSize, all zero, or the first group zero
SizeChoices(ng) ==
    { [k \in 1..ng |-> BaseSize], [k \in 1..ng |-> 0],
      [k \in 1..ng |-> IF k = 1 THEN 0 ELSE BaseSize] }

Groups(ng, sizes) ==
    [k \in 1..ng |-> [group_id |-> GroupNames[k], sample_size |-> sizes[k]]]

ValueEntry(gid, e) ==
    [group_id |-> gid, mean |-> e.mean, sd |-> e.sd, ci_lower |-> e.ci_lower,
     ci_upper |-> e.ci_upper, count |-> e.count]

RECURSIVE Values(_, _)
\* the entries of the groups a row reports, in group order
Values(cells, k) ==
    IF k > Len(cells) THEN <<>>
    ELSE (IF cells[k].present THEN <<ValueEntry(GroupNames[k], cells[k])>> ELSE <<>>)
           \o Values(cells, k + 1)

Row(kind, cells) ==
    [variable |-> "var",
     variable_type |-> BaseType(kind),
     level |-> IF BaseType(kind) = "Categorical" THEN Some("Yes") ELSE Null,
     values |-> Values(cells, 1)]

\* the table of nr rows over ng groups whose r-th row has the base kinds[r],
\* but for the cell dev names, if it names one
Table(ng, nr, kinds, dev) ==
    [r \in 1..nr |->
       Row(kinds[r],
           [k \in 1..ng |->
              IF dev.r = r /\ dev.k = k THEN dev.d ELSE BaseEntry(kinds[r], k)])]

NoDeviation == [r |-> 0, k |-> 0, d |-> AbsentEntry]

\* at most one deviant cell in a table
Deviations(ng, nr, kinds) ==
    {NoDeviation}
      \cup UNION { {[r |-> c[1], k |-> c[2], d |-> d] : d \in Deviants(kinds[c[1]])} :
                     c \in (1..nr) \X (1..ng) }

Seeds == {Null, Some(1)}

\* ------------------------------------------------------------------------
\* Results of a call: a returned value or a raised exception
\* ------------------------------------------------------------------------
Return(v) == [ok |-> TRUE, error |-> NoError, value |-> v]
Raise(msg) == [ok |-> FALSE, error |-> msg, value |-> Null]

\* a Python dict: its keys in insertion order, and its values
Dict(keys, at) == [keys |-> keys, at |-> at]
EmptyDict == Dict(<<>>, [k \in {} |-> 0])

\* ------------------------------------------------------------------------
\* table_extraction/utils.py: the wide-table projector
\* ------------------------------------------------------------------------
\* a DataFrame: its columns "{gid} ({field})" as pairs <<gid, field>> (the
\* columns Variable and Variable type are fields of every row), and its rows,
\* each with its index label `name`.  Columns the pipeline never reads
\* (original, median, IQR_lower, IQR_upper, pvalue) are left out.
EmptyFrame == [columns |-> {}, rows |-> <<>>]

\* DataFrame.empty
IsEmpty(frame) == frame.rows = <<>>

\* str(x) inside an f-string
Format(o) == IF o = Null THEN "None" ELSE Val(o)

\* a faulty conversion: None becomes zero
_to_numeric_or_zero(value, as_int) ==
    IF value = Null THEN (IF as_int THEN Some(0) ELSE Some(Float(0)))
    ELSE IF as_int THEN Some(Val(value))
    ELSE Some(Float(Val(value)))

\* table_extraction/utils.py 254-260
_to_numeric(value, as_int) ==
    IF value = Null THEN Null
    ELSE IF as_int THEN Some(Val(value))
    ELSE Some(Float(Val(value)))

\* one record of to_csv_wide: the keys it sets, and their values
WideRecord(row) ==
    LET level_str ==
            IF row.variable_type = "Categorical"
            THEN <<" (", Format(row.level), ")">> ELSE <<>>
        gids == {row.values[j].group_id : j \in DOMAIN row.values}
        \* a later entry of the same group overwrites an earlier one
        last(gid) ==
            row.values[CHOOSE j \in DOMAIN row.values :
                         /\ row.values[j].group_id = gid
                         /\ \A h \in DOMAIN row.values :
                              row.values[h].group_id = gid => h <= j]
        field(v, f) ==
            CASE f = "mean" -> _to_numeric(v.mean, FALSE)
              [] f = "count" -> _to_numeric(v.count, TRUE)
              [] f = "95CI_lower" -> _to_numeric(v.ci_lower, FALSE)
              [] f = "95CI_upper" -> _to_numeric(v.ci_upper, FALSE)
              [] f = "sd" -> _to_numeric(v.sd, FALSE)
    IN  [Variable |-> <<row.variable>> \o level_str,
         Variable_type |-> row.variable_type,
         record |-> [c \in gids \X Fields |-> field(last(c[1]), c[2])]]

\* pd.DataFrame(list of records): the columns are the union of the keys; a
\* key a record lacks, and a None, is a missing value; numbers are floats
DataFrame(records) ==
    LET columns == UNION {DOMAIN records[i].record : i \in DOMAIN records}
        cell(rec, c) ==
            IF c \notin DOMAIN rec \/ rec[c] = Null THEN NaN
            ELSE IF c[2] = "count" THEN Float(Val(rec[c]))
            ELSE Val(rec[c])
    IN  [columns |-> columns,
         rows |-> [i \in DOMAIN records |->
                     [name |-> i - 1,
                      Variable |-> records[i].Variable,
                      Variable_type |-> records[i].Variable_type,
                      cells |-> [c \in columns |-> cell(records[i].record, c)]]]]

to_csv_wide(data) ==
    DataFrame([i \in DOMAIN data.rows |-> WideRecord(data.rows[i])])

\* DataFrame.filter(regex="(<field>)").columns
FilterColumns(frame, f) == {c \in frame.columns : c[2] = f}

RECURSIVE RowSum(_, _)
\* frame[cols].sum(axis=1) for one row, over columns that hold numbers
RowSum(r, cols) ==
    IF cols = {} THEN Float(0)
    ELSE LET c == CHOOSE x \in cols : TRUE
         IN  RAdd(r.cells[c], RowSum(r, cols \ {c}))

\* ------------------------------------------------------------------------
\* statistical_analysis/utils.py
\* ------------------------------------------------------------------------
\* a faulty mask: a count for some group is enough
SomeCount(r, count_cols) == \E c \in count_cols : ~r.cells[c].nan

\* utils.py 40: cat_df[count_cols].notna().all(axis=1), for one row
AllCounts(r, count_cols) == \A c \in count_cols : ~r.cells[c].nan

\* utils.py 43: cat_df[count_cols].sum(axis=1) / total_sample_size, for one row
PopulationRate(r, count_cols, total) == RDiv(RowSum(r, count_cols), Float(total))

process_categorical_variables(frame, total) ==
    IF IsEmpty(frame) THEN Return(frame)
    ELSE IF total <= 0 THEN Raise("total_sample_size must be positive")
    ELSE
      LET count_cols == FilterColumns(frame, "count")
          complete(r) ==
              /\ r.Variable_type = "Categorical"
              /\ AllCounts(r, count_cols)
          rate(r) == PopulationRate(r, count_cols, total)
          \* frame[mask]: the rows that satisfy the mask, in order, with their labels
          kept == SelectSeq(frame.rows, complete)
      IN  Return([columns |-> frame.columns \cup {<<"", "population_rate">>},
                  rows |-> [i \in DOMAIN kept |->
                              [kept[i] EXCEPT !.cells =
                                 [c \in frame.columns \cup {<<"", "population_rate">>} |->
                                    IF c \in frame.columns THEN kept[i].cells[c]
                                    ELSE rate(kept[i])]]]])

\* a faulty check: the bounds count as missing only when both are
MissingBothCI(ci_lower, ci_upper) == ci_lower.nan /\ ci_upper.nan

\* utils.py 104: .isna().any().any() over the two bounds of a row
MissingCI(ci_lower, ci_upper) == ci_lower.nan \/ ci_upper.nan

\* a faulty imputation: the standard error is taken for the standard deviation
ImputedSDWithoutSize(ci_lower, ci_upper, n) ==
    RDiv(RSub(ci_upper, ci_lower), Rat(2 * 196, 100))

\* utils.py 109-115: (ci_width / (2 * 1.96)) * np.sqrt(sample_size[group])
ImputedSD(ci_lower, ci_upper, n) ==
    RMul(RDiv(RSub(ci_upper, ci_lower), Rat(2 * 196, 100)), Float(Sqrt(n)))

\* a faulty check: sem < 0 in place of sem == 0
IsNegative(x) == x.num < 0

\* utils.py 118: sem == 0 (false of NaN)
IsZero(x) == ~x.nan /\ RIsZero(x)

\* what the division of floats gives for a divisor of zero: NaN for 0 / 0,
\* else an infinity (a float with the denominator 0)
Infinite(x) == ~x.nan /\ x.den = 0
DivideByZero(x) ==
    IF RIsZero(x) THEN NaN
    ELSE [nan |-> FALSE, num |-> IF x.num < 0 THEN -1 ELSE 1, den |-> 0]

\* utils.py 117: sd / np.sqrt(sample_size[group])
Sem(sd, n) == IF n = 0 THEN DivideByZero(sd) ELSE RDiv(sd, Float(Sqrt(n)))

\* utils.py 120: (mean - population_mean) / sem; a missing mean gives NaN
ZScore(mean, population_mean, sem) ==
    IF mean.nan THEN NaN
    ELSE IF RIsZero(sem) THEN DivideByZero(RSub(mean, population_mean))
    ELSE RDiv(RSub(mean, population_mean), sem)

\* a faulty mask: a mean for every group is asked for
EveryMean(r, mean_cols) == mean_cols # {} /\ \A c \in mean_cols : ~r.cells[c].nan

\* utils.py 84: mean_df[mean_cols].notna().any(axis=1), for one row
AnyMean(r, mean_cols) == \E c \in mean_cols : ~r.cells[c].nan

\* a faulty mean: a missing mean counts as zero
PopulationMeanOverAll(r, mean_cols) ==
    LET present == {c \in mean_cols : ~r.cells[c].nan}
    IN  RDiv(RowSum(r, present), Float(Cardinality(mean_cols)))

\* utils.py 87: mean_df[mean_cols].mean(axis=1), which skips missing values
PopulationMean(r, mean_cols) ==
    LET present == {c \in mean_cols : ~r.cells[c].nan}
    IN  RDiv(RowSum(r, present), Float(Cardinality(present)))

\* the loop over the groups of process_continuous_variables_mean, from the
\* k-th group on
RECURSIVE ZScoreLoop(_, _, _)
ZScoreLoop(mean_df, sizes, k) ==
    IF k > Len(sizes.keys) THEN Return(mean_df)
    ELSE
      LET group == sizes.keys[k]
          mean_col == <<group, "mean">>
          sd_col == <<group, "sd">>
          sem_col == <<group, "sem">>
          z_col == <<group, "zscore">>
          ci_lower_col == <<group, "95CI_lower">>
          ci_upper_col == <<group, "95CI_upper">>
          missing_sd_mask == {i \in DOMAIN mean_df.rows : mean_df.rows[i].cells[sd_col].nan}
          sd(i) ==
              IF i \in missing_sd_mask
              THEN ImputedSD(mean_df.rows[i].cells[ci_lower_col],
                             mean_df.rows[i].cells[ci_upper_col], sizes.at[group])
              ELSE mean_df.rows[i].cells[sd_col]
          sem(i) == Sem(sd(i), sizes.at[group])
          zscore(i) ==
              ZScore(mean_df.rows[i].cells[mean_col],
                     mean_df.rows[i].cells[<<"", "population_mean">>], sem(i))
          columns == mean_df.columns \cup {z_col, sem_col}
      IN  IF sd_col \notin mean_df.columns
          THEN Raise("KeyError")
          ELSE IF \E i \in missing_sd_mask :
                    MissingCI(mean_df.rows[i].cells[ci_lower_col],
                              mean_df.rows[i].cells[ci_upper_col])
          THEN Raise("Cannot compute SD: both SD and confidence intervals are missing")
          ELSE IF \E i \in DOMAIN mean_df.rows : IsZero(sem(i))
          THEN Raise("SEM is zero, cannot compute z-scores")
          ELSE ZScoreLoop(
                 [columns |-> columns,
                  rows |-> [i \in DOMAIN mean_df.rows |->
                              [mean_df.rows[i] EXCEPT !.cells =
                                 [c \in columns |->
                                    CASE c = z_col -> zscore(i)
                                      [] c = sem_col -> sem(i)
                                      [] c = sd_col -> sd(i)
                                      [] OTHER -> mean_df.rows[i].cells[c]]]]],
                 sizes, k + 1)

\* a faulty check: v < 0 in place of v <= 0
Negative(v) == v < 0

\* utils.py 75: v <= 0
NonPositive(v) == v <= 0

\* a slip: the sample sizes are checked before the table is looked at
process_continuous_variables_mean_checking_first(frame, sizes) ==
    IF sizes.keys = <<>> THEN Raise("sample_size must not be empty")
    ELSE IF \E g \in Range(sizes.keys) : NonPositive(sizes.at[g])
    THEN Raise("All sample sizes must be positive")
    ELSE Return(frame)

process_continuous_variables_mean(frame, sizes) ==
    IF IsEmpty(frame) THEN Return(frame)
    ELSE IF sizes.keys = <<>> THEN Raise("sample_size must not be empty")
    ELSE IF \E g \in Range(sizes.keys) : NonPositive(sizes.at[g])
    THEN Raise("All sample sizes must be positive")
    ELSE
      LET mean_cols == FilterColumns(frame, "mean")
          has_mean(r) ==
              /\ r.Variable_type = "Continuous"
              /\ AnyMean(r, mean_cols)
          kept == SelectSeq(frame.rows, has_mean)
          population_mean(r) == PopulationMean(r, mean_cols)
          columns == frame.columns \cup {<<"", "population_mean">>}
      IN  ZScoreLoop(
            [columns |-> columns,
             rows |-> [i \in DOMAIN kept |->
                         [kept[i] EXCEPT !.cells =
                            [c \in columns |->
                               IF c \in frame.columns THEN kept[i].cells[c]
                               ELSE population_mean(kept[i])]]]],
            sizes, 1)

\* a faulty flattening: the z-score column of the first group only
ZScoresOfFirstGroup(cont_df, keys) ==
    Flatten([i \in DOMAIN cont_df.rows |->
               IF keys # <<>> /\ <<keys[1], "zscore">> \in cont_df.columns
               THEN <<cont_df.rows[i].cells[<<keys[1], "zscore">>]>>
               ELSE <<>>])

\* cont_df.filter(regex="(zscore)").values.flatten(): row by row, the groups
\* in the order their columns were added
ZScores(cont_df, keys) ==
    Flatten([i \in DOMAIN cont_df.rows |->
               Flatten([k \in DOMAIN keys |->
                          IF <<keys[k], "zscore">> \in cont_df.columns
                          THEN <<cont_df.rows[i].cells[<<keys[k], "zscore">>]>>
                          ELSE <<>>])])

RECURSIVE TableRowsUnchecked(_, _, _)
\* a faulty loop: a count above the total is let through
TableRowsUnchecked(group_count, group_total, i) ==
    IF i > Len(group_count.keys) THEN Return(<<>>)
    ELSE
      LET g == group_count.keys[i]
          success == group_count.at[g]
          total == group_total.at[g]
          rest == TableRowsUnchecked(group_count, group_total, i + 1)
      IN  Return(<<<<success.num \div success.den,
                     total - success.num \div success.den>>>> \o rest.value)

RECURSIVE TableRows(_, _, _)
\* the loop of contingency_table_binary from the i-th label on
TableRows(group_count, group_total, i) ==
    IF i > Len(group_count.keys) THEN Return(<<>>)
    ELSE
      LET g == group_count.keys[i]
          success == group_count.at[g]
          total == group_total.at[g]
          rest == TableRows(group_count, group_total, i + 1)
      IN  IF success.num > total * success.den
          THEN Raise("success count exceeds total count")
          ELSE IF ~rest.ok THEN rest
          ELSE Return(<<<<success.num \div success.den,
                          total - success.num \div success.den>>>> \o rest.value)

\* a faulty loop: the rows follow the keys of group_total
contingency_table_binary_by_totals(group_count, group_total) ==
    TableRows(Dict(group_total.keys, group_count.at), group_total, 1)

\* utils.py 151-165: the table, or the ValueError of line 158
contingency_table_binary(group_count, group_total) ==
    TableRows(group_count, group_total, 1)

\* ------------------------------------------------------------------------
\* statistical_analysis/statistical_tests.py and the scipy calls
\* ------------------------------------------------------------------------
Min(a, b) == IF a <= b THEN a ELSE b

\* (len(zscores) - 1) * np.var(zscores, ddof=1) / sigma0**2
Chi2Stat(zscores, sigma0) ==
    LET n == Len(zscores)
        mean == RDiv(RSum(zscores), Float(n))
        squares == [i \in DOMAIN zscores |->
                      RMul(RSub(zscores[i], mean), RSub(zscores[i], mean))]
        sample_var == RDiv(RSum(squares), Float(n - 1))
    IN  RDiv(RMul(Float(n - 1), sample_var), Float(sigma0 * sigma0))

\* what scipy.stats.chi2.cdf(chi2_stat, df) may return, times PScale: 0 at 0,
\* else a value of (0, 1)
Chi2Cdf(chi2_stat) ==
    IF RIsZero(chi2_stat) THEN {0} ELSE {PScale \div 4, PScale \div 2}

\* a faulty validation: infinite values and a sigma0 of zero are let through
chi_square_variance_test_lax(zscores, sigma0, cdf) ==
    IF Len(zscores) = 0 THEN Raise("zscores must not be empty")
    ELSE IF Len(zscores) < 2
    THEN Raise("zscores must have at least 2 elements to compute variance")
    ELSE IF \E i \in DOMAIN zscores : zscores[i].nan
    THEN Raise("zscores contains NaN or infinite values")
    ELSE IF sigma0 < 0 THEN Raise("sigma0 must be positive")
    ELSE Return([p_value |-> 2 * Min(cdf, PScale - cdf),
                 chi2_stat |->
                   IF \E i \in DOMAIN zscores : Infinite(zscores[i]) THEN NaN
                   ELSE IF sigma0 = 0 THEN DivideByZero(Chi2Stat(zscores, 1))
                   ELSE Chi2Stat(zscores, sigma0)])

\* a faulty p-value: twice the lower tail
chi_square_variance_test_lower_tail(zscores, sigma0, cdf) ==
    IF Len(zscores) = 0 THEN Raise("zscores must not be empty")
    ELSE IF Len(zscores) < 2
    THEN Raise("zscores must have at least 2 elements to compute variance")
    ELSE IF \E i \in DOMAIN zscores : zscores[i].nan \/ Infinite(zscores[i])
    THEN Raise("zscores contains NaN or infinite values")
    ELSE IF sigma0 <= 0 THEN Raise("sigma0 must be positive")
    ELSE Return([p_value |-> 2 * cdf,
                 chi2_stat |-> Chi2Stat(zscores, sigma0)])

\* statistical_tests.py 13-32; None and the empty array are both the empty
\* sequence, and line 13 treats them alike; cdf is the value chi2.cdf returns
\* for the statistic
chi_square_variance_test(zscores, sigma0, cdf) ==
    IF Len(zscores) = 0 THEN Raise("zscores must not be empty")
    ELSE IF Len(zscores) < 2
    THEN Raise("zscores must have at least 2 elements to compute variance")
    ELSE IF \E i \in DOMAIN zscores : zscores[i].nan \/ Infinite(zscores[i])
    THEN Raise("zscores contains NaN or infinite values")
    ELSE IF sigma0 <= 0 THEN Raise("sigma0 must be positive")
    ELSE Return([p_value |-> 2 * Min(cdf, PScale - cdf),
                 chi2_stat |-> Chi2Stat(zscores, sigma0)])

\* the cdf values the test may see for these z-scores
CdfChoices(zscores) ==
    IF /\ Len(zscores) >= 2
       /\ \A i \in DOMAIN zscores : ~zscores[i].nan /\ ~Infinite(zscores[i])
    THEN Chi2Cdf(Chi2Stat(zscores, 1))
    ELSE {0}

\* the p-values scipy.stats.fisher_exact may return, times PScale: 1, the
\* smallest power of two, and a value above 1
FisherPValues == {PScale, 1, 2 * PScale}

\* the statistic of scipy.stats.fisher_exact, left uninterpreted
FisherStatistic(table, method) == [fisher_exact |-> table, method |-> method]

\* MonteCarloMethod(rng=np.random.default_rng(random_seed))
MonteCarloMethod(seed) == Some([rng |-> seed])

\* a faulty choice: Monte Carlo from two groups on
FisherMethodFromTwoGroups(ids, seed) ==
    IF Len(ids) >= 2 THEN MonteCarloMethod(seed) ELSE Null

\* a faulty choice: the generator of the Monte Carlo method is not seeded
FisherMethodUnseeded(ids, seed) ==
    IF Len(ids) > 2 THEN MonteCarloMethod(Null) ELSE Null

\* pipeline.py 117-125: Monte Carlo for more than two groups, else the exact
\* test (method=None)
FisherMethod(ids, seed) ==
    IF Len(ids) > 2 THEN MonteCarloMethod(seed) ELSE Null

\* a faulty key: the position of the row among the rows kept
FisherKeyByPosition(row, pos) == <<"fisher_test", pos - 1>>

\* f"fisher_test-{row.name}", pos the position of the row in cat_df
FisherKey(row, pos) == <<"fisher_test", row.name>>

\* the keys of the Fisher entries of a bundle
FisherKeys(bundle) == {key \in DOMAIN bundle : key[1] = "fisher_test"}

ContKey == <<"cont_chi_squared_variance">>
CombinedKey == <<"fisher_method-combined">>

\* -log2(p) for the p-values of the model; p = 2 is the value above 1
NegLog2(p) ==
    IF p > PScale THEN -1
    ELSE CHOOSE e \in 0..MaxExp : p * (2 ^ e) = PScale

RECURSIVE SumNegLog2(_)
SumNegLog2(ps) == IF ps = <<>> THEN 0 ELSE NegLog2(Head(ps)) + SumNegLog2(Tail(ps))

RECURSIVE Factorial(_)
Factorial(n) == IF n <= 0 THEN 1 ELSE n * Factorial(n - 1)

RECURSIVE SfSum(_, _, _)
\* sum over j < k of (9 e)^j * 13^(k-1-j) * (k-1)! / j!
SfSum(e, k, j) ==
    IF j >= k THEN 0
    ELSE ((9 * e) ^ j) * (13 ^ (k - 1 - j)) * (Factorial(k - 1) \div Factorial(j))
           + SfSum(e, k, j + 1)

\* chi2.sf(2 e ln 2, 2 k) = 2^-e * sum over j < k of (e ln 2)^j / j!, times
\* PScale and rounded down, with ln 2 taken as 9/13
Chi2Sf(e, k) ==
    IF e <= 0 THEN PScale
    ELSE (PScale * SfSum(e, k, 0)) \div ((13 ^ (k - 1)) * Factorial(k - 1) * (2 ^ e))

\* scipy.stats.combine_pvalues(pvals, method="fisher"): the statistic
\* -2 * sum(ln p) in units of 2 ln 2 (infinite when some p is 0), and its
\* chi-squared survival probability with 2 len(pvals) degrees of freedom
combine_pvalues(ps) ==
    IF \E i \in DOMAIN ps : ps[i] = 0
    THEN [statistic |-> [inf |-> TRUE, units |-> 0], pvalue |-> 0]
    ELSE [statistic |-> [inf |-> FALSE, units |-> SumNegLog2(ps)],
          pvalue |-> Chi2Sf(SumNegLog2(ps), Len(ps))]

\* ------------------------------------------------------------------------
\* State
\* ------------------------------------------------------------------------
VARIABLES
    \* the arguments of run_test_pipeline
    json_data, skip_continuous_var, skip_categorical_var, random_seed,
    \* where the call is, and its locals
    pc, df, sample_size, total_sample_size, group_ids,
    pvals, out, cont_df, cat_df, cat_i, method_exact_fisher,
    \* how the call ended: the returned bundle, the raised error
    result, error,
    \* history: the stages entered, and the number of calls to each function
    stages, calls,
    \* the call made before this one on the same input and flags, if any: its
    \* seed and how it ended
    previous,
    \* a direct call of a function of the library: the function and its
    \* arguments, and what the call gave back
    call, ret,
    \* cmd_analyze: its options, the items to analyze, the number of items
    \* the loop has been through, the collector of the report if one is asked
    \* for, the items run_test_pipeline was called on and whether
    \* plot_test_output was called on their output (history), and the report
    \* written at the end
    cli, items, item_i, report_collector, processed, report,
    \* extract_with_repair: its argument, the loop variable, its locals, the
    \* requests given to the backend with its responses (history), how the
    \* call ended
    max_attempts, attempt, response, error_message, exchanges, extraction,
    \* the extractions table, and the calls of add_extraction made (history)
    extractions, add_calls

\* the state of a call of run_test_pipeline
pipeline ==
    <<json_data, skip_continuous_var, skip_categorical_var, random_seed,
      pc, df, sample_size, total_sample_size, group_ids,
      pvals, out, cont_df, cat_df, cat_i, method_exact_fisher,
      result, error, stages, calls, previous>>

library == <<call, ret>>
analysis == <<cli, items, item_i, report_collector, processed, report>>
repair == <<max_attempts, attempt, response, error_message, exchanges, extraction>>
database == <<extractions, add_calls>>

\* the state outside a call of run_test_pipeline
outside == <<library, analysis, repair, database>>

vars == <<pipeline, outside>>

args == <<json_data, skip_continuous_var, skip_categorical_var, random_seed>>

\* no function of the library is called directly
NoLibrary ==
    /\ call = Null
    /\ ret = Null

\* cmd_analyze is not run
NoAnalysis ==
    /\ cli = Null
    /\ items = <<>>
    /\ item_i = 0
    /\ report_collector = Null
    /\ processed = <<>>
    /\ report = Null

\* extract_with_repair is not called
NoRepair ==
    /\ max_attempts = 0
    /\ attempt = 0
    /\ response = Null
    /\ error_message = Null
    /\ exchanges = <<>>
    /\ extraction = Null

\* the database is not used
NoDatabase ==
    /\ extractions = {}
    /\ add_calls = <<>>

NoOutside == NoLibrary /\ NoAnalysis /\ NoRepair /\ NoDatabase

NoBundle == [k \in {} |-> 0]
NoCalls ==
    [zscore_engine |-> 0, chi_square |-> 0, rate_engine |-> 0, contingency |-> 0,
     fisher_exact |-> 0, combine |-> 0]

\* the deviant cells tried with these sample sizes, those a call can read:
\* none when the sizes are all zero (pipeline.py 63-64 ends the call), and
\* none of a Continuous row when some size is not positive (utils.py 73-76
\* end the z-score engine before it reads a cell).  The deviant cell is of
\* the first or of the last group, in the first or in the last row: the
\* groups and the rows between them are treated as the last is
DeviationsFor(ng, nr, kinds, sizes) ==
    LET tried == {dev \in Deviations(ng, nr, kinds) :
                    dev = NoDeviation \/ (dev.k \in {1, ng} /\ dev.r \in {1, nr})}
    IN  IF \A k \in 1..ng : sizes[k] = 0 THEN {NoDeviation}
        ELSE IF \A k \in 1..ng : sizes[k] > 0 THEN tried
        ELSE {dev \in tried :
                dev = NoDeviation \/ BaseType(kinds[dev.r]) = "Categorical"}

Init ==
    /\ \E ng \in 0..MaxGroups, nr \in 0..MaxRows :
         \E kinds \in [1..nr -> BaseKinds], sizes \in SizeChoices(ng) :
           \E dev \in DeviationsFor(ng, nr, kinds, sizes) :
             json_data = [groups |-> Groups(ng, sizes),
                          rows |-> Table(ng, nr, kinds, dev)]
    /\ skip_continuous_var \in BOOLEAN
    /\ skip_categorical_var \in BOOLEAN
    /\ random_seed \in Seeds
    /\ pc = "INIT"
    /\ df = EmptyFrame
    /\ sample_size = EmptyDict
    /\ total_sample_size = 0
    /\ group_ids = <<>>
    /\ pvals = <<>>
    /\ out = NoBundle
    /\ cont_df = EmptyFrame
    /\ cat_df = EmptyFrame
    /\ cat_i = 0
    /\ method_exact_fisher = Null
    /\ result = NoResult
    /\ error = NoError
    /\ stages = <<>>
    /\ calls = NoCalls
    /\ previous = Null
    /\ NoOutside

\* a faulty raise: the entries computed so far are handed back
FailWithPartialBundle(msg) ==
    /\ pc' = "FAILED"
    /\ error' = msg
    /\ result' = [returned |-> TRUE, bundle |-> out]

\* raise: the call ends with the exception, whatever out holds
Fail(msg) ==
    /\ pc' = "FAILED"
    /\ error' = msg
    /\ result' = NoResult

Called(f) == [calls EXCEPT ![f] = @ + 1]

RECURSIVE SumSizes(_)
SumSizes(groups) ==
    IF groups = <<>> THEN 0 ELSE Head(groups).sample_size + SumSizes(Tail(groups))

\* a faulty collection: the list is overwritten with the new p-value
CollectOverwrites(ps, p_value) == <<p_value>>

\* pvals.append(p_value)
Collect(ps, p_value) == Append(ps, p_value)

\* out[key] = record
Put(bundle, key, record) == (key :> record) @@ bundle

\* {g["group_id"]: g["sample_size"] for g in json_data["groups"]}
SampleSizes(groups) ==
    Dict([k \in DOMAIN groups |-> groups[k].group_id],
         [g \in {groups[k].group_id : k \in DOMAIN groups} |->
            groups[CHOOSE k \in DOMAIN groups : groups[k].group_id = g].sample_size])

\* a faulty projection: the total is not looked at
ProjectWithoutTotalCheck ==
    /\ pc = "INIT"
    /\ stages' = Append(stages, "PROJECT")
    /\ df' = to_csv_wide(json_data)
    /\ sample_size' = SampleSizes(json_data.groups)
    /\ total_sample_size' = SumSizes(json_data.groups)
    /\ group_ids' = sample_size'.keys
    /\ pc' = "CONTINUOUS_TEST"
    /\ UNCHANGED <<args, previous, outside, cont_df, pvals, out, cat_df, cat_i, method_exact_fisher, calls,
                   result, error>>

\* pipeline.py 58-64: project the input and total the sample sizes
Project ==
    /\ pc = "INIT"
    /\ stages' = Append(stages, "PROJECT")
    /\ df' = to_csv_wide(json_data)
    /\ sample_size' = SampleSizes(json_data.groups)
    /\ total_sample_size' = SumSizes(json_data.groups)
    /\ group_ids' = sample_size'.keys
    /\ IF total_sample_size' = 0
       THEN Fail("Total sample size is zero. Cannot proceed with analysis.")
       ELSE /\ pc' = "CONTINUOUS_TEST"
            /\ UNCHANGED <<result, error>>
    /\ UNCHANGED <<args, previous, outside, cont_df, pvals, out, cat_df, cat_i, method_exact_fisher, calls>>

\* pipeline.py 81-100: the z-score engine, then the chi-squared test on the
\* flattened z-scores
RunContinuous ==
    /\ stages' = Append(stages, "CONTINUOUS_TEST")
    /\ LET cont == process_continuous_variables_mean(df, sample_size)
       IN  IF ~cont.ok
           THEN /\ Fail(cont.error)
                /\ calls' = Called("zscore_engine")
                /\ UNCHANGED <<pvals, out, cont_df>>
           ELSE LET zscores == ZScores(cont.value, sample_size.keys)
                IN  /\ cont_df' = cont.value
                    /\ IF Len(cont.value.rows) > 0 /\ Len(zscores) > 0
                       THEN \E cdf \in CdfChoices(zscores) :
                              LET test == chi_square_variance_test(zscores, 1, cdf)
                              IN  /\ calls' = [calls EXCEPT !.zscore_engine = @ + 1,
                                                            !.chi_square = @ + 1]
                                  /\ IF ~test.ok
                                     THEN /\ Fail(test.error)
                                          /\ UNCHANGED <<pvals, out>>
                                     ELSE /\ pvals' = Collect(pvals, test.value.p_value)
                                          /\ out' = Put(out, ContKey,
                                                        [p_value |-> test.value.p_value,
                                                         test_statistic |-> test.value.chi2_stat,
                                                         zscores |-> zscores])
                                          /\ pc' = "CATEGORICAL_TEST"
                                          /\ UNCHANGED <<result, error>>
                       ELSE /\ calls' = Called("zscore_engine")
                            /\ pc' = "CATEGORICAL_TEST"
                            /\ UNCHANGED <<pvals, out, result, error>>
    /\ UNCHANGED <<args, previous, outside, df, sample_size, total_sample_size, group_ids,
                   cat_df, cat_i, method_exact_fisher>>

\* a faulty skip: the flag is set and the stage runs all the same
SkipContinuousRunsStage ==
    /\ pc = "CONTINUOUS_TEST"
    /\ skip_continuous_var
    /\ RunContinuous

\* pipeline.py 77-78: skip_continuous_var is set
SkipContinuous ==
    /\ pc = "CONTINUOUS_TEST"
    /\ skip_continuous_var
    /\ pc' = "CATEGORICAL_TEST"
    /\ UNCHANGED <<args, previous, outside, cont_df, df, sample_size, total_sample_size, group_ids, pvals, out,
                   cat_df, cat_i, method_exact_fisher, result, error, stages, calls>>

\* pipeline.py 79-100: skip_continuous_var is not set
ContinuousTest ==
    /\ pc = "CONTINUOUS_TEST"
    /\ ~skip_continuous_var
    /\ RunContinuous

\* a faulty skip: the collected p-values go to the combiner unvalidated
SkipCategoricalToCombine ==
    /\ pc = "CATEGORICAL_TEST"
    /\ skip_categorical_var
    /\ pc' = "COMBINE"
    /\ UNCHANGED <<args, previous, outside, cont_df, df, sample_size, total_sample_size, group_ids, pvals, out,
                   cat_df, cat_i, method_exact_fisher, result, error, stages, calls>>

\* pipeline.py 106-107
SkipCategorical ==
    /\ pc = "CATEGORICAL_TEST"
    /\ skip_categorical_var
    /\ pc' = "VALIDATE_PVALUES"
    /\ UNCHANGED <<args, previous, outside, cont_df, df, sample_size, total_sample_size, group_ids, pvals, out,
                   cat_df, cat_i, method_exact_fisher, result, error, stages, calls>>

\* pipeline.py 108-125: the rate engine, and the choice of the Fisher method
CategoricalTest ==
    /\ pc = "CATEGORICAL_TEST"
    /\ ~skip_categorical_var
    /\ stages' = Append(stages, "CATEGORICAL_TEST")
    /\ calls' = Called("rate_engine")
    /\ LET cat == process_categorical_variables(df, total_sample_size)
       IN  IF ~cat.ok
           THEN /\ Fail(cat.error)
                /\ UNCHANGED <<cat_df, cat_i, method_exact_fisher>>
           ELSE /\ cat_df' = cat.value
                /\ UNCHANGED <<result, error>>
                /\ IF Len(cat.value.rows) = 0
                   THEN /\ pc' = "VALIDATE_PVALUES"
                        /\ UNCHANGED <<cat_i, method_exact_fisher>>
                   ELSE /\ pc' = "FISHER_LOOP"
                        /\ cat_i' = 1
                        /\ method_exact_fisher' = FisherMethod(group_ids, random_seed)
    /\ UNCHANGED <<args, previous, outside, cont_df, df, sample_size, total_sample_size, group_ids, pvals, out>>

\* {g_id: row[f"{g_id} (count)"] for g_id in group_ids}
GroupCounts(frame, row, ids) ==
    IF \E k \in DOMAIN ids : <<ids[k], "count">> \notin frame.columns
    THEN Raise("KeyError")
    ELSE Return(Dict(ids, [g \in Range(ids) |-> row.cells[<<g, "count">>]]))

\* pipeline.py 127-147: one iteration of the loop over the rows of cat_df
FisherRow ==
    /\ pc = "FISHER_LOOP"
    /\ LET row == cat_df.rows[cat_i]
           last == cat_i = Len(cat_df.rows)
           group_counts == GroupCounts(cat_df, row, group_ids)
       IN  IF ~group_counts.ok
           THEN /\ Fail(group_counts.error)
                /\ UNCHANGED <<pvals, out, cat_i, calls>>
           ELSE
             LET table == contingency_table_binary(group_counts.value, sample_size)
             IN  IF ~table.ok
                 THEN /\ Fail(table.error)
                      /\ calls' = Called("contingency")
                      /\ UNCHANGED <<pvals, out, cat_i>>
                 ELSE \E p_value \in FisherPValues :
                        /\ calls' = [calls EXCEPT !.contingency = @ + 1,
                                                  !.fisher_exact = @ + 1]
                        /\ pvals' = Collect(pvals, p_value)
                        /\ out' = Put(out, FisherKey(row, cat_i),
                                      [p_value |-> p_value,
                                       test_statistic |->
                                         FisherStatistic(table.value, method_exact_fisher),
                                       contingency_table |-> table.value,
                                       variable_name |-> row.Variable,
                                       test_statistic_is_odds_ratio |->
                                         Len(group_ids) = 2])
                        /\ cat_i' = cat_i + 1
                        /\ pc' = IF last THEN "VALIDATE_PVALUES" ELSE "FISHER_LOOP"
                        /\ UNCHANGED <<result, error>>
    /\ UNCHANGED <<args, previous, outside, cont_df, df, sample_size, total_sample_size, group_ids, cat_df,
                   method_exact_fisher, stages>>

\* a faulty validation: an empty list of p-values passes
ValidatePvaluesAcceptsEmpty ==
    /\ pc = "VALIDATE_PVALUES"
    /\ stages' = Append(stages, "VALIDATE_PVALUES")
    /\ IF ~(\A i \in DOMAIN pvals : 0 <= pvals[i] /\ pvals[i] <= PScale)
       THEN Fail("P-values must be between 0 and 1")
       ELSE /\ pc' = "COMBINE"
            /\ UNCHANGED <<result, error>>
    /\ UNCHANGED <<args, previous, outside, cont_df, df, sample_size, total_sample_size, group_ids, pvals, out,
                   cat_df, cat_i, method_exact_fisher, calls>>

\* a faulty validation: the range of the p-values is not looked at
ValidatePvaluesAcceptsAnyRange ==
    /\ pc = "VALIDATE_PVALUES"
    /\ stages' = Append(stages, "VALIDATE_PVALUES")
    /\ IF Len(pvals) = 0
       THEN Fail("No p-values collected. Cannot perform combined test.")
       ELSE /\ pc' = "COMBINE"
            /\ UNCHANGED <<result, error>>
    /\ UNCHANGED <<args, previous, outside, cont_df, df, sample_size, total_sample_size, group_ids, pvals, out,
                   cat_df, cat_i, method_exact_fisher, calls>>

\* pipeline.py 149-156
ValidatePvalues ==
    /\ pc = "VALIDATE_PVALUES"
    /\ stages' = Append(stages, "VALIDATE_PVALUES")
    /\ IF Len(pvals) = 0
       THEN Fail("No p-values collected. Cannot perform combined test.")
       ELSE IF ~(\A i \in DOMAIN pvals : 0 <= pvals[i] /\ pvals[i] <= PScale)
       THEN Fail("P-values must be between 0 and 1")
       ELSE /\ pc' = "COMBINE"
            /\ UNCHANGED <<result, error>>
    /\ UNCHANGED <<args, previous, outside, cont_df, df, sample_size, total_sample_size, group_ids, pvals, out,
                   cat_df, cat_i, method_exact_fisher, calls>>

\* a faulty return: the sub-test entries without the combined one
CombineReturnsSubTests ==
    /\ pc = "COMBINE"
    /\ stages' = Append(stages, "COMBINE")
    /\ calls' = Called("combine")
    /\ result' = [returned |-> TRUE, bundle |-> out]
    /\ pc' = "DONE"
    /\ UNCHANGED <<args, previous, outside, cont_df, df, sample_size, total_sample_size, group_ids, pvals, out,
                   cat_df, cat_i, method_exact_fisher, error>>

\* pipeline.py 158-169
Combine ==
    /\ pc = "COMBINE"
    /\ stages' = Append(stages, "COMBINE")
    /\ calls' = Called("combine")
    /\ LET combined == combine_pvalues(pvals)
       IN  /\ out' = Put(out, CombinedKey,
                         [p_value |-> combined.pvalue,
                          test_statistic |-> combined.statistic])
           /\ result' = [returned |-> TRUE, bundle |-> out']
    /\ pc' = "DONE"
    /\ UNCHANGED <<args, previous, outside, cont_df, df, sample_size, total_sample_size, group_ids, pvals,
                   cat_df, cat_i, method_exact_fisher, error>>

Next ==
    \/ Project
    \/ SkipContinuous
    \/ ContinuousTest
    \/ SkipCategorical
    \/ CategoricalTest
    \/ FisherRow
    \/ ValidatePvalues
    \/ Combine

Spec == Init /\ [][Next]_vars

\* ------------------------------------------------------------------------
\* Two calls on the same input and flags, one after the other
\* ------------------------------------------------------------------------
\* the Fisher tests of two bundles at one row draw the same numbers: the exact
\* test always does; the Monte Carlo test does when its generator has the
\* same integer seed in both and has served the same tables before this row
\* (a generator seeded with None takes fresh entropy from the system)
SameDraws(bundle, before, key) ==
    LET method == bundle[key].test_statistic.method
    IN  /\ method = before[key].test_statistic.method
        /\ \/ method = Null
           \/ /\ Val(method).rng # Null
              /\ \A other \in FisherKeys(bundle) \cup FisherKeys(before) :
                   other[2] < key[2] =>
                     /\ other \in FisherKeys(bundle) \cap FisherKeys(before)
                     /\ bundle[other].contingency_table = before[other].contingency_table

\* scipy is a function of what it is given: chi2.cdf of the z-scores, and
\* fisher_exact of the table, and of the state of the generator for the
\* Monte Carlo method
Reproducible ==
    previous # Null =>
      LET before == Val(previous).out
      IN  /\ (/\ ContKey \in DOMAIN out
              /\ ContKey \in DOMAIN before
              /\ out[ContKey].zscores = before[ContKey].zscores)
               => out[ContKey].p_value = before[ContKey].p_value
          /\ \A key \in FisherKeys(out) \cap FisherKeys(before) :
               (/\ out[key].contingency_table = before[key].contingency_table
                /\ SameDraws(out, before, key))
                 => out[key].p_value = before[key].p_value

\* the first call: any flags and seed, on a table without a deviant cell
TwoRunInit ==
    /\ \E ng \in 0..MaxGroups, nr \in 0..MaxRows :
         \E kinds \in [1..nr -> BaseKinds], sizes \in SizeChoices(ng) :
           json_data = [groups |-> Groups(ng, sizes),
                        rows |-> Table(ng, nr, kinds, NoDeviation)]
    /\ skip_continuous_var \in BOOLEAN
    /\ skip_categorical_var \in BOOLEAN
    /\ random_seed \in Seeds
    /\ pc = "INIT"
    /\ df = EmptyFrame
    /\ sample_size = EmptyDict
    /\ total_sample_size = 0
    /\ group_ids = <<>>
    /\ pvals = <<>>
    /\ out = NoBundle
    /\ cont_df = EmptyFrame
    /\ cat_df = EmptyFrame
    /\ cat_i = 0
    /\ method_exact_fisher = Null
    /\ result = NoResult
    /\ error = NoError
    /\ stages = <<>>
    /\ calls = NoCalls
    /\ previous = Null
    /\ NoOutside

\* the caller calls run_test_pipeline again with the same input and flags,
\* and a seed of its choice
Rerun ==
    /\ pc \in {"DONE", "FAILED"}
    /\ previous = Null
    /\ previous' = Some([random_seed |-> random_seed, result |-> result,
                         error |-> error, out |-> out])
    /\ random_seed' \in Seeds
    /\ pc' = "INIT"
    /\ df' = EmptyFrame
    /\ sample_size' = EmptyDict
    /\ total_sample_size' = 0
    /\ group_ids' = <<>>
    /\ pvals' = <<>>
    /\ out' = NoBundle
    /\ cont_df' = EmptyFrame
    /\ cat_df' = EmptyFrame
    /\ cat_i' = 0
    /\ method_exact_fisher' = Null
    /\ result' = NoResult
    /\ error' = NoError
    /\ stages' = <<>>
    /\ calls' = NoCalls
    /\ UNCHANGED <<json_data, skip_continuous_var, skip_categorical_var, outside>>

ContinuousTestAgain == ContinuousTest /\ Reproducible'

FisherRowAgain == FisherRow /\ Reproducible'

TwoRunNext ==
    \/ Project
    \/ SkipContinuous
    \/ ContinuousTestAgain
    \/ SkipCategorical
    \/ CategoricalTest
    \/ FisherRowAgain
    \/ ValidatePvalues
    \/ Combine
    \/ Rerun

TwoRunSpec == TwoRunInit /\ [][TwoRunNext]_vars

\* ------------------------------------------------------------------------
\* One call of an engine of statistical_analysis/utils.py on a projected
\* table, as the tests of the engines make it: the sample sizes may be zero,
\* or differ from group to group
\* ------------------------------------------------------------------------
\* the sizes of the pipeline's inputs; the squares 4, 9, 16, ...; and all
\* BaseSize but the last, which is negative
EngineSizeChoices(ng) ==
    SizeChoices(ng)
      \cup {[k \in 1..ng |-> (k + 1) * (k + 1)],
            [k \in 1..ng |-> IF k = ng THEN -1 ELSE BaseSize]}

EngineInit ==
    /\ \E ng \in 0..MaxGroups, nr \in 0..MaxRows :
         \E kinds \in [1..nr -> BaseKinds], sizes \in EngineSizeChoices(ng) :
           \E dev \in Deviations(ng, nr, kinds) :
             json_data = [groups |-> Groups(ng, sizes),
                          rows |-> Table(ng, nr, kinds, dev)]
    /\ skip_continuous_var = FALSE
    /\ skip_categorical_var = FALSE
    /\ random_seed = Null
    /\ pc = "INIT"
    /\ df = EmptyFrame
    /\ sample_size = EmptyDict
    /\ total_sample_size = 0
    /\ group_ids = <<>>
    /\ pvals = <<>>
    /\ out = NoBundle
    /\ cont_df = EmptyFrame
    /\ cat_df = EmptyFrame
    /\ cat_i = 0
    /\ method_exact_fisher = Null
    /\ result = NoResult
    /\ error = NoError
    /\ stages = <<>>
    /\ calls = NoCalls
    /\ previous = Null
    /\ NoOutside

\* pipeline.py 58-61: the table and the sample sizes an engine is given
ProjectTable ==
    /\ pc = "INIT"
    /\ df' = to_csv_wide(json_data)
    /\ sample_size' = SampleSizes(json_data.groups)
    /\ total_sample_size' = SumSizes(json_data.groups)
    /\ group_ids' = sample_size'.keys
    /\ pc' = "CALL"
    /\ UNCHANGED <<args, previous, outside, cont_df, pvals, out, cat_df, cat_i,
                   method_exact_fisher, result, error, stages, calls>>

\* process_continuous_variables_mean(df, sample_size): it returns, or raises
CallContinuous ==
    /\ pc = "CALL"
    /\ calls' = Called("zscore_engine")
    /\ LET cont == process_continuous_variables_mean(df, sample_size)
       IN  IF cont.ok
           THEN /\ cont_df' = cont.value
                /\ pc' = "RETURNED"
                /\ UNCHANGED <<result, error>>
           ELSE /\ Fail(cont.error)
                /\ UNCHANGED cont_df
    /\ UNCHANGED <<args, previous, outside, df, sample_size, total_sample_size, group_ids,
                   pvals, out, cat_df, cat_i, method_exact_fisher, stages>>

\* process_categorical_variables(df, total_sample_size): it returns, or raises
CallCategorical ==
    /\ pc = "CALL"
    /\ calls' = Called("rate_engine")
    /\ LET cat == process_categorical_variables(df, total_sample_size)
       IN  IF cat.ok
           THEN /\ cat_df' = cat.value
                /\ pc' = "RETURNED"
                /\ UNCHANGED <<result, error>>
           ELSE /\ Fail(cat.error)
                /\ UNCHANGED cat_df
    /\ UNCHANGED <<args, previous, outside, cont_df, df, sample_size, total_sample_size,
                   group_ids, pvals, out, cat_i, method_exact_fisher, stages>>

EngineNext ==
    \/ ProjectTable
    \/ CallContinuous
    \/ CallCategorical

EngineSpec == EngineInit /\ [][EngineNext]_vars

\* ------------------------------------------------------------------------
\* What the properties speak of: the input as the caller sees it
\* ------------------------------------------------------------------------
NumGroups == Len(json_data.groups)
TotalSize == SumSizes(json_data.groups)
Terminal == {"DONE", "FAILED"}

\* the rows the z-score engine keeps (utils.py 78-83): Continuous, with a
\* mean for some group
ProcessedContinuousRows ==
    {i \in DOMAIN json_data.rows :
       /\ json_data.rows[i].variable_type = "Continuous"
       /\ \E j \in DOMAIN json_data.rows[i].values :
            json_data.rows[i].values[j].mean # Null}

\* the count a row gives for a group: Null when it gives none
CountOf(row, gid) ==
    IF \E j \in DOMAIN row.values : row.values[j].group_id = gid
    THEN row.values[CHOOSE j \in DOMAIN row.values :
                      /\ row.values[j].group_id = gid
                      /\ \A h \in DOMAIN row.values :
                           row.values[h].group_id = gid => h <= j].count
    ELSE Null

\* the rows the rate engine keeps (utils.py 35-45): Categorical, with a count
\* for every group
CompleteCategoricalRows ==
    {i \in DOMAIN json_data.rows :
       /\ json_data.rows[i].variable_type = "Categorical"
       /\ \A k \in DOMAIN json_data.groups :
            CountOf(json_data.rows[i], json_data.groups[k].group_id) # Null}

ValidPValue(p) == 0 <= p /\ p <= PScale

Entered(stage) == stage \in Range(stages)

\* ------------------------------------------------------------------------
\* C1
\* ------------------------------------------------------------------------
\* no enabled stage can collect a p-value from this input
NothingToCollect ==
    /\ skip_continuous_var \/ ProcessedContinuousRows = {}
    /\ skip_categorical_var \/ CompleteCategoricalRows = {}

\* C1: run_test_pipeline raises, and returns no bundle, whenever zero
\* p-values were collected: with both skip flags set, and with no processable
\* continuous row and no categorical row with complete counts for the enabled
\* stages, the list of p-values stays empty, the combiner is never reached,
\* and validation of an empty list ends the run in an error.
C1_NoPValuesRaises ==
    /\ NothingToCollect => pvals = <<>>
    /\ pvals = <<>> => /\ pc \notin {"COMBINE", "DONE"}
                       /\ result = NoResult
    /\ (pvals = <<>> /\ Entered("VALIDATE_PVALUES")) =>
         /\ pc = "FAILED"
         /\ error = "No p-values collected. Cannot perform combined test."

\* both stages ran over a table with rows, none of them usable
C1_Witness ==
    /\ pc = "FAILED"
    /\ error = "No p-values collected. Cannot perform combined test."
    /\ ~skip_continuous_var /\ ~skip_categorical_var
    /\ json_data.rows # <<>>
    /\ Entered("CONTINUOUS_TEST") /\ Entered("CATEGORICAL_TEST")

\* ------------------------------------------------------------------------
\* C2
\* ------------------------------------------------------------------------
\* C2: every bundle run_test_pipeline returns, for every input and every
\* setting of the skip flags, has the key 'fisher_method-combined' with a
\* p_value and a test_statistic, those of Fisher's method on the collected
\* p-values.
C2_CombinedAlwaysPresent ==
    result.returned =>
      /\ CombinedKey \in DOMAIN result.bundle
      /\ DOMAIN result.bundle[CombinedKey] = {"p_value", "test_statistic"}
      /\ result.bundle[CombinedKey].p_value = combine_pvalues(pvals).pvalue
      /\ result.bundle[CombinedKey].test_statistic = combine_pvalues(pvals).statistic

\* a bundle with both kinds of sub-test entries
C2_Witness ==
    /\ result.returned
    /\ ContKey \in DOMAIN result.bundle
    /\ FisherKeys(result.bundle) # {}

\* ------------------------------------------------------------------------
\* C3
\* ------------------------------------------------------------------------
\* the continuous stage, run on the projected input, raises nothing
ContinuousPasses ==
    LET cont == process_continuous_variables_mean(df, sample_size)
    IN  /\ cont.ok
        /\ LET zscores == ZScores(cont.value, sample_size.keys)
           IN  (Len(cont.value.rows) > 0 /\ Len(zscores) > 0) =>
                 chi_square_variance_test(zscores, 1, 0).ok

\* the categorical stage, run on the projected input, raises nothing
CategoricalPasses ==
    LET cat == process_categorical_variables(df, total_sample_size)
    IN  /\ cat.ok
        /\ \A i \in DOMAIN cat.value.rows :
             LET group_counts == GroupCounts(cat.value, cat.value.rows[i], group_ids)
             IN  /\ group_counts.ok
                 /\ contingency_table_binary(group_counts.value, sample_size).ok

\* C3: a failure of any stage (z-score engine, chi-squared test, contingency
\* table, p-value validation) reaches the caller and no bundle is returned,
\* not even the entries earlier stages computed: an error ends the run in
\* FAILED with no result, and a run that returns had no stage fail.
C3_FailurePropagates ==
    /\ error # NoError <=> pc = "FAILED"
    /\ pc = "FAILED" => result = NoResult
    /\ result.returned =>
         /\ pc = "DONE" /\ error = NoError
         /\ ~skip_continuous_var => ContinuousPasses
         /\ ~skip_categorical_var => CategoricalPasses
         /\ pvals # <<>> /\ \A i \in DOMAIN pvals : ValidPValue(pvals[i])

\* the contingency table of a row fails after the chi-squared entry was
\* written
C3_Witness ==
    /\ pc = "FAILED"
    /\ error = "success count exceeds total count"
    /\ ContKey \in DOMAIN out
    /\ result = NoResult

\* ------------------------------------------------------------------------
\* C4
\* ------------------------------------------------------------------------
StageOrder ==
    <<"PROJECT", "CONTINUOUS_TEST", "CATEGORICAL_TEST", "VALIDATE_PVALUES", "COMBINE">>

Rank(stage) == CHOOSE i \in DOMAIN StageOrder : StageOrder[i] = stage

StageEnabled(stage) ==
    /\ stage = "CONTINUOUS_TEST" => ~skip_continuous_var
    /\ stage = "CATEGORICAL_TEST" => ~skip_categorical_var

\* the stages entered so far come in the order of the pipeline, none of them
\* skipped by the caller, and a finished run entered every stage it was asked
\* to
StagesInOrder ==
    /\ \A i, j \in DOMAIN stages : i < j => Rank(stages[i]) < Rank(stages[j])
    /\ \A i \in DOMAIN stages : StageEnabled(stages[i])
    /\ stages # <<>> => stages[1] = "PROJECT"
    /\ pc = "DONE" => stages = SelectSeq(StageOrder, StageEnabled)
    /\ (Entered("CATEGORICAL_TEST") /\ ~skip_continuous_var) =>
         /\ Entered("CONTINUOUS_TEST")
         /\ calls.zscore_engine = 1
         /\ ContinuousPasses
    /\ (pc = "COMBINE" \/ Entered("COMBINE")) =>
         /\ Entered("VALIDATE_PVALUES")
         /\ pvals # <<>> /\ \A i \in DOMAIN pvals : ValidPValue(pvals[i])
    /\ result.returned <=> pc = "DONE"
    /\ error # NoError <=> pc = "FAILED"

\* how far a run has come: the place in the code, then the row of the Fisher
\* loop
Places ==
    <<"INIT", "CONTINUOUS_TEST", "CATEGORICAL_TEST", "FISHER_LOOP",
      "VALIDATE_PVALUES", "COMBINE">>

Progress ==
    IF pc \in Terminal THEN (Len(Places) + 1) * (Len(json_data.rows) + 2)
    ELSE (CHOOSE i \in DOMAIN Places : Places[i] = pc) * (Len(json_data.rows) + 2)
           + cat_i

\* some action can be taken: the guards of the actions of Next (what follows
\* a guard in an action is an assignment or a choice from a set that is not
\* empty)
CanStep ==
    \/ pc = "INIT"
    \/ pc = "CONTINUOUS_TEST" /\ (skip_continuous_var \/ ~skip_continuous_var)
    \/ pc = "CATEGORICAL_TEST" /\ (skip_categorical_var \/ ~skip_categorical_var)
    \/ pc = "FISHER_LOOP" /\ cat_i \in DOMAIN cat_df.rows
    \/ pc = "VALIDATE_PVALUES"
    \/ pc = "COMBINE"

\* C4: every run passes its stages in the order PROJECT, CONTINUOUS_TEST (if
\* not skipped), CATEGORICAL_TEST (if not skipped), VALIDATE_PVALUES, COMBINE,
\* DONE: the categorical stage starts only after the continuous stage has
\* finished, COMBINE is reached only after validation has passed, and every
\* run ends in DONE or in FAILED: a run that is in neither can take a step,
\* every step brings it nearer to the end, and there is no step from DONE or
\* FAILED.
C4_StageOrder ==
    /\ []StagesInOrder
    /\ [](pc \notin Terminal => CanStep)
    /\ [][pc \notin Terminal /\ Progress' > Progress]_vars

\* a run that went through every stage
C4_Witness ==
    /\ pc = "DONE"
    /\ stages = StageOrder
    /\ calls.chi_square = 1 /\ calls.fisher_exact >= 1

\* ------------------------------------------------------------------------
\* C5
\* ------------------------------------------------------------------------
\* C5: when the sample sizes of the groups sum to zero the run fails before
\* the chi-squared test or any Fisher test is run, whatever the skip flags:
\* it fails in the projection, and no engine or test is ever called.
C5_ZeroTotalFailsFirst ==
    TotalSize = 0 =>
      /\ pc \in {"INIT", "FAILED"}
      /\ calls = NoCalls
      /\ pvals = <<>> /\ out = NoBundle
      /\ pc = "FAILED" =>
           /\ error = "Total sample size is zero. Cannot proceed with analysis."
           /\ stages = <<"PROJECT">>

\* groups of size zero, rows of both types, no stage skipped
C5_Witness ==
    /\ pc = "FAILED"
    /\ TotalSize = 0
    /\ NumGroups >= 2
    /\ ProcessedContinuousRows # {} /\ CompleteCategoricalRows # {}
    /\ ~skip_continuous_var /\ ~skip_categorical_var

\* ------------------------------------------------------------------------
\* C6
\* ------------------------------------------------------------------------
\* C6: every p_value of a returned bundle lies in [0, 1]: a collected
\* p-value outside [0, 1] makes the run raise before the combiner, the value
\* is not clamped (the entry keeps the value the test returned) and no bundle
\* is returned.
C6_PValuesInUnitInterval ==
    /\ result.returned =>
         \A key \in DOMAIN result.bundle : ValidPValue(result.bundle[key].p_value)
    /\ (\E i \in DOMAIN pvals : ~ValidPValue(pvals[i])) =>
         /\ pc \notin {"COMBINE", "DONE"}
         /\ calls.combine = 0
         /\ result = NoResult
         /\ Entered("VALIDATE_PVALUES") =>
              /\ pc = "FAILED"
              /\ error = "P-values must be between 0 and 1"
    /\ {out[key].p_value : key \in DOMAIN out \ {CombinedKey}} = Range(pvals)

\* a Fisher test returned a value above 1; validation raised, the entry still
\* holds the value
C6_Witness ==
    /\ pc = "FAILED"
    /\ error = "P-values must be between 0 and 1"
    /\ \E key \in FisherKeys(out) : out[key].p_value > PScale

\* ------------------------------------------------------------------------
\* C7
\* ------------------------------------------------------------------------
\* C7: for every fisher_test entry, test_statistic_is_odds_ratio is true
\* exactly when the input declares exactly two groups, and the Fisher test
\* that produced it was given the Monte Carlo method exactly when the input
\* declares more than two groups (else the exact test, method None).
C7_OddsRatioIffTwoGroups ==
    /\ \A key \in FisherKeys(out) :
         /\ out[key].test_statistic_is_odds_ratio <=> NumGroups = 2
         /\ out[key].test_statistic.method # Null <=> NumGroups > 2
         /\ out[key].test_statistic.method # Null =>
              out[key].test_statistic.method = MonteCarloMethod(random_seed)
    /\ result.returned => FisherKeys(result.bundle) = FisherKeys(out)

\* a returned bundle of three groups with a Monte Carlo Fisher test
C7_Witness ==
    /\ result.returned
    /\ NumGroups = 3
    /\ \E key \in FisherKeys(result.bundle) :
         /\ ~result.bundle[key].test_statistic_is_odds_ratio
         /\ result.bundle[key].test_statistic.method # Null

\* ------------------------------------------------------------------------
\* C8
\* ------------------------------------------------------------------------
\* the counts of the i-th input row, group by group
CountsOfRow(i) ==
    [k \in DOMAIN json_data.groups |->
       Val(CountOf(json_data.rows[i], json_data.groups[k].group_id))]

\* C8: when the categorical stage runs and the pipeline returns, the bundle
\* has exactly one 'fisher_test-{i}' entry for each Categorical input row
\* with a count for every group, i the (0-based) index of the row in the input
\* rows, and none for any other row; one Fisher test was run per such row, so
\* distinct rows got distinct keys, and the entry of index i holds the counts
\* of row i.
C8_OneFisherEntryPerCompleteRow ==
    (result.returned /\ ~skip_categorical_var) =>
      /\ {key[2] : key \in FisherKeys(result.bundle)}
           = {i - 1 : i \in CompleteCategoricalRows}
      /\ \A key \in FisherKeys(result.bundle) : Len(key) = 2
      /\ calls.fisher_exact = Cardinality(CompleteCategoricalRows)
      /\ Cardinality(FisherKeys(result.bundle)) = calls.fisher_exact
      /\ \A i \in CompleteCategoricalRows :
           LET table == result.bundle[<<"fisher_test", i - 1>>].contingency_table
           IN  [k \in DOMAIN table |-> table[k][1]] = CountsOfRow(i)

\* the first row is Categorical and lacks a count, the second is complete:
\* the bundle has the entry of index 1 alone
C8_Witness ==
    /\ result.returned
    /\ ~skip_categorical_var
    /\ Len(json_data.rows) = 2
    /\ json_data.rows[1].variable_type = "Categorical"
    /\ CompleteCategoricalRows = {2}
    /\ FisherKeys(result.bundle) = {<<"fisher_test", 1>>}

\* ------------------------------------------------------------------------
\* C9
\* ------------------------------------------------------------------------
\* C9: the chi-squared variance test is run at most once per run, on the one
\* flattened array with a z-score per (processed continuous row, group) pair;
\* the 'cont_chi_squared_variance' entry is there exactly when the continuous
\* stage is not skipped and processed at least one continuous row, and its
\* zscores array has length (processed continuous rows) x (groups).
C9_ChiSquaredOnceOnAllZScores ==
    /\ calls.chi_square <= 1
    /\ ContKey \in DOMAIN out =>
         /\ calls.chi_square = 1
         /\ ~skip_continuous_var
         /\ ProcessedContinuousRows # {}
         /\ Len(out[ContKey].zscores) = Cardinality(ProcessedContinuousRows) * NumGroups
         /\ \A i \in DOMAIN out[ContKey].zscores : ~out[ContKey].zscores[i].nan
    /\ result.returned =>
         /\ ContKey \in DOMAIN result.bundle
              <=> (~skip_continuous_var /\ ProcessedContinuousRows # {})
         /\ ContKey \in DOMAIN result.bundle =>
              result.bundle[ContKey] = out[ContKey]

\* two processed rows over three groups: six z-scores, one test
C9_Witness ==
    /\ result.returned
    /\ NumGroups = 3
    /\ Cardinality(ProcessedContinuousRows) = 2
    /\ Len(result.bundle[ContKey].zscores) = 6
    /\ calls.chi_square = 1

\* ------------------------------------------------------------------------
\* C10
\* ------------------------------------------------------------------------
\* the errors of the z-score stage
ZScoreStageErrors ==
    {"sample_size must not be empty",
     "All sample sizes must be positive",
     "Cannot compute SD: both SD and confidence intervals are missing",
     "SEM is zero, cannot compute z-scores",
     "zscores must not be empty",
     "zscores must have at least 2 elements to compute variance",
     "zscores contains NaN or infinite values",
     "sigma0 must be positive"}

\* C10: with skip_continuous_var set the z-score engine and the chi-squared
\* test are never called, the bundle has no 'cont_chi_squared_variance' entry
\* and no error of the z-score stage (missing SD and CI, zero SEM,
\* non-positive sample size) occurs; with skip_categorical_var set no
\* contingency table is built and the bundle has no fisher_test entry.
C10_SkippedStagesDoNothing ==
    /\ skip_continuous_var =>
         /\ calls.zscore_engine = 0 /\ calls.chi_square = 0
         /\ ContKey \notin DOMAIN out
         /\ error \notin ZScoreStageErrors
         /\ ~Entered("CONTINUOUS_TEST")
    /\ skip_categorical_var =>
         /\ calls.rate_engine = 0 /\ calls.contingency = 0 /\ calls.fisher_exact = 0
         /\ FisherKeys(out) = {}
         /\ error # "success count exceeds total count"
         /\ ~Entered("CATEGORICAL_TEST")

\* the continuous stage would have raised (a group of size zero, a
\* continuous row to process); it is skipped and the run returns
C10_Witness ==
    /\ skip_continuous_var
    /\ result.returned
    /\ ProcessedContinuousRows # {}
    /\ \E k \in DOMAIN json_data.groups : json_data.groups[k].sample_size = 0
    /\ ~process_continuous_variables_mean(df, sample_size).ok

\* ------------------------------------------------------------------------
\* C11
\* ------------------------------------------------------------------------
\* both calls have ended
BothEnded == previous # Null /\ pc \in Terminal

\* the second call ended as the first did: the same bundle, or the same error
SameOutcome ==
    /\ result = Val(previous).result
    /\ error = Val(previous).error

\* a Monte Carlo Fisher test may run: more than two groups, and the
\* categorical stage is not skipped
MonteCarloStage == NumGroups > 2 /\ ~skip_categorical_var

\* C11 as stated: two calls of run_test_pipeline on identical input and flags
\* with the same random_seed return identical bundles, whatever the seed is.
C11_SameSeedSameBundle ==
    (BothEnded /\ random_seed = Val(previous).random_seed) => SameOutcome

\* C11, amended: two calls on identical input and flags return identical
\* bundles (or raise the same error) when they are given the same integer
\* random_seed, and, whatever their seeds, when no Monte Carlo Fisher test is
\* run (at most two groups, or the categorical stage skipped).
C11_Deterministic ==
    BothEnded =>
      /\ (random_seed = Val(previous).random_seed /\ random_seed # Null) => SameOutcome
      /\ ~MonteCarloStage => SameOutcome

\* two calls with the seed 1 on three groups returned a bundle with a Monte
\* Carlo Fisher entry each
C11_Witness ==
    /\ BothEnded
    /\ result.returned
    /\ FisherKeys(result.bundle) # {}
    /\ NumGroups = 3
    /\ random_seed = Some(1)
    /\ Val(previous).random_seed = Some(1)

\* two calls with different seeds on two groups returned a bundle with an
\* exact Fisher entry each
SeedIgnored ==
    /\ BothEnded
    /\ result.returned
    /\ FisherKeys(result.bundle) # {}
    /\ NumGroups = 2
    /\ random_seed # Val(previous).random_seed


\* ------------------------------------------------------------------------
\* C12
\* ------------------------------------------------------------------------
\* the sub-test entries of a bundle
SubTests(bundle) == DOMAIN bundle \ {CombinedKey}

\* how many sub-test entries of a bundle report the p-value p
Reporting(bundle, p) == Cardinality({key \in SubTests(bundle) : bundle[key].p_value = p})

\* how many times the list holds p
Occurrences(ps, p) == Cardinality({i \in DOMAIN ps : ps[i] = p})

RECURSIVE SumNegLog2Of(_, _)
\* the sum of -log2(p) over the entries of a bundle at the given keys
SumNegLog2Of(bundle, keys) ==
    IF keys = {} THEN 0
    ELSE LET key == CHOOSE x \in keys : TRUE
         IN  NegLog2(bundle[key].p_value) + SumNegLog2Of(bundle, keys \ {key})

\* C12: the p-values combined by Fisher's method are exactly the p_value of
\* every sub-test entry of the returned bundle, each once: their number k is
\* the number of entries other than 'fisher_method-combined', the combined
\* statistic is -2 * sum(ln p) over these entries (infinite when one is 0),
\* and the combined p-value is its chi-squared tail with 2k degrees of freedom.
C12_CombinesExactlyTheSubTests ==
    result.returned =>
      LET bundle == result.bundle
          k == Cardinality(SubTests(bundle))
          units == SumNegLog2Of(bundle, SubTests(bundle))
          combined == bundle[CombinedKey]
      IN  /\ calls.combine = 1
          /\ Len(pvals) = k
          /\ \A p \in 0..PScale : Occurrences(pvals, p) = Reporting(bundle, p)
          /\ IF \E key \in SubTests(bundle) : bundle[key].p_value = 0
             THEN combined.test_statistic.inf /\ combined.p_value = 0
             ELSE /\ combined.test_statistic = [inf |-> FALSE, units |-> units]
                  /\ combined.p_value = Chi2Sf(units, k)

\* a returned bundle with the chi-squared entry and a Fisher entry whose
\* p-value is below 1
C12_Witness ==
    /\ result.returned
    /\ ContKey \in DOMAIN result.bundle
    /\ \E key \in FisherKeys(result.bundle) : result.bundle[key].p_value < PScale


\* ------------------------------------------------------------------------
\* C13
\* ------------------------------------------------------------------------
\* the mean a row gives for a group: Null when it gives none
MeanOf(row, gid) ==
    IF \E j \in DOMAIN row.values : row.values[j].group_id = gid
    THEN row.values[CHOOSE j \in DOMAIN row.values :
                      /\ row.values[j].group_id = gid
                      /\ \A h \in DOMAIN row.values :
                           row.values[h].group_id = gid => h <= j].mean
    ELSE Null

\* the row lacks the data of some declared group: it has no entry for the
\* group, or the group's mean (continuous row) or count (categorical row) is
\* null
MissingGroupData(row) ==
    \E k \in DOMAIN json_data.groups :
      LET gid == json_data.groups[k].group_id
      IN  IF row.variable_type = "Continuous"
          THEN MeanOf(row, gid) = Null
          ELSE CountOf(row, gid) = Null

IncompleteRows == {i \in DOMAIN json_data.rows : MissingGroupData(json_data.rows[i])}

\* the input without its incomplete rows, projected
RemainingFrame ==
    LET complete(row) == ~MissingGroupData(row)
    IN  to_csv_wide([json_data EXCEPT !.rows = SelectSeq(json_data.rows, complete)])

\* the continuous stage raises nothing on the frame
ContinuousPassesOn(frame) ==
    LET cont == process_continuous_variables_mean(frame, sample_size)
    IN  /\ cont.ok
        /\ LET zscores == ZScores(cont.value, sample_size.keys)
           IN  (Len(cont.value.rows) > 0 /\ Len(zscores) > 0) =>
                 chi_square_variance_test(zscores, 1, 0).ok

\* the categorical stage raises nothing on the frame
CategoricalPassesOn(frame) ==
    LET cat == process_categorical_variables(frame, total_sample_size)
    IN  /\ cat.ok
        /\ \A i \in DOMAIN cat.value.rows :
             LET group_counts == GroupCounts(cat.value, cat.value.rows[i], group_ids)
             IN  /\ group_counts.ok
                 /\ contingency_table_binary(group_counts.value, sample_size).ok

\* utils.py 73-76
SampleSizeErrors == {"sample_size must not be empty", "All sample sizes must be positive"}

\* the stage the run failed in
FailedIn(stage) == pc = "FAILED" /\ stages # <<>> /\ stages[Len(stages)] = stage

\* C13: a row for which some declared group's data is missing (no entry for
\* the group, or a null mean in a continuous row, or a null count in a
\* categorical row) is excluded from processing, and the pipeline continues
\* with the remaining rows rather than failing on that row: no z-score and no
\* Fisher entry comes from such a row, and a stage that fails (for another
\* reason than the sample sizes) fails on the remaining rows too.
C13_IncompleteRowsExcluded ==
    /\ ContKey \in DOMAIN out =>
         LET rest == process_continuous_variables_mean(RemainingFrame, sample_size)
         IN  rest.ok /\ out[ContKey].zscores = ZScores(rest.value, sample_size.keys)
    /\ \A key \in FisherKeys(out) : key[2] + 1 \notin IncompleteRows
    /\ (FailedIn("CONTINUOUS_TEST") /\ error \notin SampleSizeErrors)
         => ~ContinuousPassesOn(RemainingFrame)
    /\ FailedIn("CATEGORICAL_TEST") => ~CategoricalPassesOn(RemainingFrame)


\* ------------------------------------------------------------------------
\* What the properties of the engines speak of
\* ------------------------------------------------------------------------
\* what a row reports for a group: nothing when it has no entry for it
EntryOf(row, gid) ==
    IF \E j \in DOMAIN row.values : row.values[j].group_id = gid
    THEN row.values[CHOOSE j \in DOMAIN row.values :
                      /\ row.values[j].group_id = gid
                      /\ \A h \in DOMAIN row.values :
                           row.values[h].group_id = gid => h <= j]
    ELSE ValueEntry(gid, AbsentEntry)

GroupIds == {json_data.groups[k].group_id : k \in DOMAIN json_data.groups}

\* the sample size the input declares for a group
SizeOf(gid) ==
    json_data.groups[CHOOSE k \in DOMAIN json_data.groups :
                       json_data.groups[k].group_id = gid].sample_size

\* the groups of the projected table: those some row has an entry for
FrameGroups ==
    {gid \in GroupIds :
       \E i \in DOMAIN json_data.rows :
         \E j \in DOMAIN json_data.rows[i].values :
           json_data.rows[i].values[j].group_id = gid}

\* the index labels of the rows of a frame, in order
Labels(frame) == [i \in DOMAIN frame.rows |-> frame.rows[i].name]

\* the labels rise: the rows are in the order of the input
Ascending(labels) == \A i, j \in DOMAIN labels : i < j => labels[i] < labels[j]

\* the input row a row of a frame was projected from
InputRow(r) == json_data.rows[r.name + 1]

\* the row gives the group no sd, and not both bounds of a confidence interval
MissingSdAndCI(row, gid) ==
    LET e == EntryOf(row, gid)
    IN  e.sd = Null /\ (e.ci_lower = Null \/ e.ci_upper = Null)

\* the row gives the group no sd, and both bounds of a confidence interval
SdFromCI(row, gid) ==
    LET e == EntryOf(row, gid)
    IN  e.sd = Null /\ e.ci_lower # Null /\ e.ci_upper # Null

\* the row gives the group a standard deviation of zero: reported, or imputed
\* from a confidence interval of width zero
ZeroSd(row, gid) ==
    LET e == EntryOf(row, gid)
    IN  \/ e.sd = Some(0)
        \/ e.sd = Null /\ e.ci_lower # Null /\ e.ci_lower = e.ci_upper

\* the z-score engine was called, and it returned, or raised
EngineCalled == calls.zscore_engine = 1
EngineReturned == EngineCalled /\ pc = "RETURNED"
EngineRaised == EngineCalled /\ pc = "FAILED"

\* the engine gets to its loop over the groups and finds the sd column of
\* each: there are groups, every sample size is positive, and some row has an
\* entry for every group
EngineReachesLoop ==
    /\ NumGroups > 0
    /\ \A gid \in GroupIds : SizeOf(gid) > 0
    /\ FrameGroups = GroupIds

CannotComputeSD == "Cannot compute SD: both SD and confidence intervals are missing"
SemIsZero == "SEM is zero, cannot compute z-scores"

\* ------------------------------------------------------------------------
\* C14
\* ------------------------------------------------------------------------
\* C14: process_continuous_variables_mean fails whenever, in some processed
\* continuous row, some group has sd missing and at least one bound of the
\* confidence interval missing: it raises and returns no z-scores for such a
\* table, and the error is the one of the missing sd unless the sample
\* sizes, a missing column or a zero SEM raised first.
C14_MissingSdAndCIFails ==
    (/\ EngineCalled
     /\ \E i \in ProcessedContinuousRows, gid \in GroupIds :
          MissingSdAndCI(json_data.rows[i], gid))
      => /\ EngineRaised
         /\ cont_df = EmptyFrame
         /\ error \in SampleSizeErrors \cup {"KeyError", SemIsZero, CannotComputeSD}
         /\ (/\ EngineReachesLoop
             /\ \A i \in ProcessedContinuousRows, gid \in GroupIds :
                  ~ZeroSd(json_data.rows[i], gid))
              => error = CannotComputeSD

\* a processed row gives a group a mean and one bound of the confidence
\* interval, no sd: the engine raised the error of the missing sd
C14_Witness ==
    /\ EngineRaised
    /\ error = CannotComputeSD
    /\ \E i \in ProcessedContinuousRows, gid \in GroupIds :
         LET e == EntryOf(json_data.rows[i], gid)
         IN  e.mean # Null /\ e.sd = Null /\ e.ci_lower # Null /\ e.ci_upper = Null

\* ------------------------------------------------------------------------
\* C15
\* ------------------------------------------------------------------------
RECURSIVE SumOfCounts(_, _)
\* the sum of the counts a row reports for the groups
SumOfCounts(row, gids) ==
    IF gids = {} THEN 0
    ELSE LET gid == CHOOSE x \in gids : TRUE
         IN  Val(CountOf(row, gid)) + SumOfCounts(row, gids \ {gid})

RateEngineCalled == calls.rate_engine = 1

\* C15: process_categorical_variables returns exactly the records whose
\* Variable type is 'Categorical' and whose count is present for every group
\* of the table, in their order; records of another type or with a missing
\* count are dropped without raising (the one error is that of a total
\* sample size that is not positive); each returned record keeps its cells
\* and gets population_rate = (sum of its counts over all groups) /
\* total_sample_size.
C15_CategoricalRecords ==
    RateEngineCalled =>
      /\ pc = "FAILED" <=> (~IsEmpty(df) /\ TotalSize <= 0)
      /\ pc = "FAILED" => error = "total_sample_size must be positive"
      /\ pc = "RETURNED" =>
           /\ Ascending(Labels(cat_df))
           /\ {r + 1 : r \in Range(Labels(cat_df))} =
                {i \in DOMAIN json_data.rows :
                   /\ json_data.rows[i].variable_type = "Categorical"
                   /\ \A gid \in FrameGroups : CountOf(json_data.rows[i], gid) # Null}
           /\ \A i \in DOMAIN cat_df.rows :
                LET r == cat_df.rows[i]
                IN  /\ r.Variable_type = "Categorical"
                    /\ r.cells[<<"", "population_rate">>] =
                         Rat(SumOfCounts(InputRow(r), FrameGroups), TotalSize)
                    /\ \A c \in df.columns : r.cells[c] = df.rows[r.name + 1].cells[c]

\* the engine kept one categorical record, with a positive rate, and dropped
\* another, whose count for one group is null
C15_Witness ==
    /\ RateEngineCalled
    /\ pc = "RETURNED"
    /\ Len(cat_df.rows) = 1
    /\ \E i \in DOMAIN json_data.rows :
         /\ json_data.rows[i].variable_type = "Categorical"
         /\ i - 1 \notin Range(Labels(cat_df))
         /\ \E gid \in FrameGroups : CountOf(json_data.rows[i], gid) = Null
    /\ cat_df.rows[1].cells[<<"", "population_rate">>].num > 0

\* ------------------------------------------------------------------------
\* C16
\* ------------------------------------------------------------------------
\* C16: process_continuous_variables_mean returns exactly the records whose
\* Variable type is 'Continuous' and for which at least one group's mean is
\* present, in their order, each with its cells (but for an imputed sd), a
\* population_mean, and a sem and a zscore for every group.
C16_ContinuousRecords ==
    EngineReturned =>
      /\ Ascending(Labels(cont_df))
      /\ {r + 1 : r \in Range(Labels(cont_df))} = ProcessedContinuousRows
      /\ \A i \in DOMAIN cont_df.rows :
           LET r == cont_df.rows[i]
           IN  /\ r.Variable_type = "Continuous"
               /\ <<"", "population_mean">> \in DOMAIN r.cells
               /\ \A gid \in GroupIds :
                    {<<gid, "sem">>, <<gid, "zscore">>} \subseteq DOMAIN r.cells
               /\ \A c \in df.columns :
                    c[2] # "sd" => r.cells[c] = df.rows[r.name + 1].cells[c]

\* the engine kept one continuous record of two groups and dropped another,
\* which reports no mean
C16_Witness ==
    /\ EngineReturned
    /\ NumGroups = 2
    /\ Len(cont_df.rows) = 1
    /\ \E i \in DOMAIN json_data.rows :
         /\ json_data.rows[i].variable_type = "Continuous"
         /\ i \notin ProcessedContinuousRows

\* ------------------------------------------------------------------------
\* C17
\* ------------------------------------------------------------------------
\* no processed row lacks both an sd and a confidence interval for a group,
\* and none has a standard deviation of zero
EveryCellSound ==
    \A i \in ProcessedContinuousRows, gid \in GroupIds :
      /\ ~MissingSdAndCI(json_data.rows[i], gid)
      /\ ~ZeroSd(json_data.rows[i], gid)

\* the sd the engine works with: the reported one, else the one imputed from
\* the confidence interval, (ci_upper - ci_lower) / 3.92 * sqrt(n)
ExpectedSd(row, gid) ==
    LET e == EntryOf(row, gid)
    IN  IF e.sd # Null THEN Float(Val(e.sd))
        ELSE Rat((Val(e.ci_upper) - Val(e.ci_lower)) * 100 * Sqrt(SizeOf(gid)), 2 * 196)

\* C17: when a group's sd is missing in a processed row and both bounds of
\* the confidence interval are present, the engine takes
\* sd = (ci_upper - ci_lower) / (2 * 1.96) * sqrt(sample_size[group]) and
\* goes on without an error; an sd the row reports is never replaced.
C17_SdImputedFromCI ==
    EngineCalled =>
      /\ (EngineReachesLoop /\ EveryCellSound) => EngineReturned
      /\ EngineReturned =>
           \A i \in DOMAIN cont_df.rows, gid \in GroupIds :
             cont_df.rows[i].cells[<<gid, "sd">>] =
               ExpectedSd(InputRow(cont_df.rows[i]), gid)

\* a processed row gives the first group the interval [0, 2] and no sd; with
\* the sample size 4 the engine returned the sd 2 / 3.92 * 2 = 50/49, and the
\* sd 1 another group reports
C17_Witness ==
    /\ EngineReturned
    /\ \E i \in DOMAIN cont_df.rows, gid \in GroupIds, other \in GroupIds :
         /\ SdFromCI(InputRow(cont_df.rows[i]), gid)
         /\ cont_df.rows[i].cells[<<gid, "sd">>] = Rat(50, 49)
         /\ EntryOf(InputRow(cont_df.rows[i]), other).sd = Some(1)
         /\ cont_df.rows[i].cells[<<other, "sd">>] = Float(1)

\* ------------------------------------------------------------------------
\* C18
\* ------------------------------------------------------------------------
\* C18: process_continuous_variables_mean fails whenever the standard error
\* sd / sqrt(n) of some group is zero in some processed row, be the sd
\* reported as zero or imputed from a confidence interval of width zero: it
\* raises, with the error of the zero SEM unless the sample sizes, a missing
\* column or a missing sd raised first.  It never returns a zero sem or an
\* infinite z-score.
C18_ZeroSemFails ==
    EngineCalled =>
      /\ (\E i \in ProcessedContinuousRows, gid \in GroupIds :
            ZeroSd(json_data.rows[i], gid))
           => /\ EngineRaised
              /\ cont_df = EmptyFrame
              /\ error \in SampleSizeErrors \cup {"KeyError", SemIsZero, CannotComputeSD}
              /\ (/\ EngineReachesLoop
                  /\ \A i \in ProcessedContinuousRows, gid \in GroupIds :
                       ~MissingSdAndCI(json_data.rows[i], gid))
                   => error = SemIsZero
      /\ EngineReturned =>
           \A i \in DOMAIN cont_df.rows, gid \in GroupIds :
             /\ ~RIsZero(cont_df.rows[i].cells[<<gid, "sem">>])
             /\ ~Infinite(cont_df.rows[i].cells[<<gid, "zscore">>])

\* a processed row gives a group the interval [2, 2] and no sd: the engine
\* raised the error of the zero SEM
C18_Witness ==
    /\ EngineRaised
    /\ error = SemIsZero
    /\ \E i \in ProcessedContinuousRows, gid \in GroupIds :
         /\ SdFromCI(json_data.rows[i], gid)
         /\ ZeroSd(json_data.rows[i], gid)


\* ------------------------------------------------------------------------
\* C19
\* ------------------------------------------------------------------------
\* the groups a row reports a mean for
WithMean(row) == {gid \in GroupIds : EntryOf(row, gid).mean # Null}

RECURSIVE SumOfMeans(_, _)
\* the sum of the means a row reports for the groups
SumOfMeans(row, gids) ==
    IF gids = {} THEN 0
    ELSE LET gid == CHOOSE x \in gids : TRUE
         IN  Val(EntryOf(row, gid).mean) + SumOfMeans(row, gids \ {gid})

\* the unweighted mean of the means the row reports
ExpectedPopulationMean(row) ==
    Rat(SumOfMeans(row, WithMean(row)), Cardinality(WithMean(row)))

ExpectedSem(row, gid) == RDiv(ExpectedSd(row, gid), Float(Sqrt(SizeOf(gid))))

\* C19: for every returned row, population_mean is the unweighted mean of
\* exactly the means the row reports (no weighting by sample size, nothing
\* for a group whose mean is missing); for every group, sem = sd / sqrt(n)
\* and zscore = (mean - population_mean) / sem, missing when the mean is.
C19_ZScoreFormulas ==
    EngineReturned =>
      \A i \in DOMAIN cont_df.rows :
        LET r == cont_df.rows[i]
            row == InputRow(r)
        IN  /\ r.cells[<<"", "population_mean">>] = ExpectedPopulationMean(row)
            /\ \A gid \in GroupIds :
                 /\ r.cells[<<gid, "sem">>] = ExpectedSem(row, gid)
                 /\ r.cells[<<gid, "zscore">>] =
                      IF gid \in WithMean(row)
                      THEN RDiv(RSub(Float(Val(EntryOf(row, gid).mean)),
                                     ExpectedPopulationMean(row)),
                                ExpectedSem(row, gid))
                      ELSE NaN

\* the engine returned a row of three groups of sizes 4, 9, 16, one of which
\* reports no mean; the means 1 and 2 of the others give the population mean
\* 3/2, and the second group (sd 1, n = 9) the z-score (2 - 3/2) / (1/3) = 3/2
C19_Witness ==
    /\ EngineReturned
    /\ NumGroups = 3
    /\ \A k \in 1..3 : json_data.groups[k].sample_size = (k + 1) * (k + 1)
    /\ \E i \in DOMAIN cont_df.rows :
         /\ WithMean(InputRow(cont_df.rows[i])) = {"g1", "g2"}
         /\ cont_df.rows[i].cells[<<"", "population_mean">>] = Rat(3, 2)
         /\ cont_df.rows[i].cells[<<"g2", "zscore">>] = Rat(3, 2)
         /\ cont_df.rows[i].cells[<<"g3", "zscore">>].nan


\* ------------------------------------------------------------------------
\* C20
\* ------------------------------------------------------------------------
\* the sample_size mapping is empty, or holds a value that is not positive
BadSampleSizes == NumGroups = 0 \/ \E gid \in GroupIds : SizeOf(gid) <= 0

\* the engine raised the error of the sample sizes, and returned nothing
SampleSizesRaised ==
    /\ EngineRaised
    /\ cont_df = EmptyFrame
    /\ error = IF NumGroups = 0 THEN "sample_size must not be empty"
               ELSE "All sample sizes must be positive"

NoPipeline ==
    /\ json_data = [groups |-> <<>>, rows |-> <<>>]
    /\ skip_continuous_var = FALSE
    /\ skip_categorical_var = FALSE
    /\ random_seed = Null
    /\ pc = "INIT"
    /\ df = EmptyFrame
    /\ sample_size = EmptyDict
    /\ total_sample_size = 0
    /\ group_ids = <<>>
    /\ pvals = <<>>
    /\ out = NoBundle
    /\ cont_df = EmptyFrame
    /\ cat_df = EmptyFrame
    /\ cat_i = 0
    /\ method_exact_fisher = Null
    /\ result = NoResult
    /\ error = NoError
    /\ stages = <<>>
    /\ calls = NoCalls
    /\ previous = Null

PlusInfinity == [nan |-> FALSE, num |-> 1, den |-> 0]
MinusInfinity == [nan |-> FALSE, num |-> -1, den |-> 0]

\* the elements of a z-score array: NaN, the infinities, and finite values
ZValues == {NaN, PlusInfinity, MinusInfinity, Float(0), Float(1), Float(-1), Rat(3, 2)}

RECURSIVE Arrays(_, _)
\* the arrays of at most n elements of vs
Arrays(vs, n) ==
    IF n = 0 THEN {<<>>}
    ELSE LET shorter == Arrays(vs, n - 1)
         IN  shorter \cup {Append(a, v) : a \in {b \in shorter : Len(b) = n - 1}, v \in vs}

Sigma0Values == {-1, 0, 1, 2}

\* the arguments that pass lines 13-20 of statistical_tests.py
ValidZScores(zscores, sigma0) ==
    /\ Len(zscores) >= 2
    /\ \A i \in DOMAIN zscores : ~zscores[i].nan /\ ~Infinite(zscores[i])
    /\ sigma0 > 0

\* what chi2.cdf may return on a direct call, times PScale: 0 at 0, else any
\* value of [0, 1] (the ends by rounding)
Chi2CdfRange(zscores, sigma0) ==
    IF ~ValidZScores(zscores, sigma0) \/ RIsZero(Chi2Stat(zscores, sigma0)) THEN {0}
    ELSE {0, PScale \div 4, PScale \div 2, 3 * (PScale \div 4), PScale}

ChiSquareCalls ==
    {[fn |-> "chi_square_variance_test", zscores |-> z, sigma0 |-> s] :
       z \in Arrays(ZValues, MaxZLen), s \in Sigma0Values}

\* chi_square_variance_test(zscores, sigma0): what it gave back, and the
\* value chi2.cdf had for it
CallChiSquare ==
    /\ call # Null
    /\ ret = Null
    /\ Val(call).fn = "chi_square_variance_test"
    /\ \E cdf \in Chi2CdfRange(Val(call).zscores, Val(call).sigma0) :
         ret' = Some([cdf |-> cdf,
                      outcome |-> chi_square_variance_test(
                                     Val(call).zscores, Val(call).sigma0, cdf)])
    /\ UNCHANGED <<pipeline, call, analysis, repair, database>>

\* the success counts and the totals of a group given to
\* contingency_table_binary directly (whole numbers)
CountValues == {-1, 0, 2, BaseSize, BaseSize + 1}
TotalValues == {0, BaseSize}

Reverse(seq) == [i \in DOMAIN seq |-> seq[Len(seq) + 1 - i]]

\* the totals of the groups: all alike, or the first group's apart
TotalChoices(names) ==
    {[g \in Range(names) |-> IF g = names[1] THEN t[1] ELSE t[2]] :
       t \in TotalValues \X TotalValues}

\* the dicts of k groups: group_count in either order of the groups
ContingencyCalls ==
    UNION {
      LET names == SubSeq(GroupNames, 1, k)
      IN  {[fn |-> "contingency_table_binary",
            group_count |-> Dict(keys, [g \in Range(names) |-> Float(c[g])]),
            group_total |-> Dict(names, t)] :
             keys \in {names, Reverse(names)},
             c \in [Range(names) -> CountValues],
             t \in TotalChoices(names)} :
      k \in 0..MaxGroups }

\* contingency_table_binary(group_count, group_total)
CallContingency ==
    /\ call # Null
    /\ ret = Null
    /\ Val(call).fn = "contingency_table_binary"
    /\ ret' = Some([outcome |-> contingency_table_binary(
                                   Val(call).group_count, Val(call).group_total)])
    /\ UNCHANGED <<pipeline, call, analysis, repair, database>>

\* the level of the rows of a table replaced by those of levels
WithLevels(rows, levels) == [r \in DOMAIN rows |-> [rows[r] EXCEPT !.level = levels[r]]]

WideCall(ng, nr, kinds, dev, levels) ==
    [fn |-> "to_csv_wide",
     json_data |-> [groups |-> Groups(ng, [k \in 1..ng |-> BaseSize]),
                    rows |-> WithLevels(Table(ng, nr, kinds, dev), levels)]]

\* the levels of the rows of a table: none has one, all have one, or every
\* other row has one
LevelChoices(nr) ==
    { [r \in 1..nr |-> Null], [r \in 1..nr |-> Some("Yes")],
      [r \in 1..nr |-> IF r % 2 = 1 THEN Some("Yes") ELSE Null] }

\* the extraction bundles given to to_csv_wide directly: the tables of the
\* pipeline, a row with or without a level whatever its type, the deviant
\* cell if any in the last row at the first group
WideCallsOf(ng, nr) ==
    UNION { UNION { {WideCall(ng, nr, kinds, dev, levels) :
                       levels \in LevelChoices(nr)} :
                    dev \in {d \in Deviations(ng, nr, kinds) :
                               d = NoDeviation \/ (d.r = nr /\ d.k = 1)} } :
            kinds \in [1..nr -> BaseKinds] }

WideCalls == UNION {WideCallsOf(c[1], c[2]) : c \in (0..MaxGroups) \X (0..MaxRows)}

\* to_csv_wide(json_data), out_path left at None: the DataFrame is returned
CallToCsvWide ==
    /\ call # Null
    /\ ret = Null
    /\ Val(call).fn = "to_csv_wide"
    /\ ret' = Some([outcome |-> Return(to_csv_wide(Val(call).json_data))])
    /\ UNCHANGED <<pipeline, call, analysis, repair, database>>

LibraryInit ==
    /\ NoPipeline
    /\ NoAnalysis /\ NoRepair /\ NoDatabase
    /\ call \in {Some(c) : c \in ChiSquareCalls \cup ContingencyCalls \cup WideCalls}
    /\ ret = Null

LibraryNext ==
    \/ CallChiSquare
    \/ CallContingency
    \/ CallToCsvWide

LibrarySpec == LibraryInit /\ [][LibraryNext]_vars

\* ------------------------------------------------------------------------
\* Properties of the functions called directly
\* ------------------------------------------------------------------------
Returned(fn) == call # Null /\ ret # Null /\ Val(call).fn = fn

\* the ValueErrors of chi_square_variance_test
ChiSquareErrors ==
    {"zscores must not be empty",
     "zscores must have at least 2 elements to compute variance",
     "zscores contains NaN or infinite values",
     "sigma0 must be positive"}

NotFinite(x) == x.nan \/ x.den = 0

\* C21: chi_square_variance_test raises a ValueError, and returns nothing,
\* whenever its array is None or empty, has fewer than 2 elements, holds a
\* NaN or an infinity, or sigma0 is not positive.
C21_BadInputRaises ==
    Returned("chi_square_variance_test") =>
      LET zscores == Val(call).zscores
          sigma0 == Val(call).sigma0
          outcome == Val(ret).outcome
      IN  (\/ zscores = <<>>
           \/ Len(zscores) < 2
           \/ \E i \in DOMAIN zscores : NotFinite(zscores[i])
           \/ sigma0 <= 0)
            => /\ ~outcome.ok
               /\ outcome.error \in ChiSquareErrors
               /\ outcome.value = Null

\* an array of two finite values and an infinity, with sigma0 = 1, was refused
C21_Witness ==
    /\ Returned("chi_square_variance_test")
    /\ Val(call).zscores = <<Float(1), MinusInfinity, Float(0)>>
    /\ Val(call).sigma0 = 1
    /\ Val(ret).outcome.error = "zscores contains NaN or infinite values"

RLeq(a, b) == a.num * b.den <= b.num * a.den

\* the sum of the squared deviations from the mean, over sigma0 squared
SumOfSquaredDeviations(zscores, sigma0) ==
    LET n == Len(zscores)
        sum == RSum(zscores)
        sum_sq == RSum([i \in DOMAIN zscores |-> RMul(zscores[i], zscores[i])])
    IN  RDiv(RSub(sum_sq, RDiv(RMul(sum, sum), Float(n))), Float(sigma0 * sigma0))

\* C22: on at least 2 finite z-scores and a positive sigma0,
\* chi_square_variance_test returns the statistic (n - 1) * sample variance /
\* sigma0^2, which is >= 0, and the p-value 2 * min(F, 1 - F), which lies in
\* [0, 1], F being the value of the chi-squared CDF.
C22_StatisticAndPValue ==
    Returned("chi_square_variance_test") =>
      LET zscores == Val(call).zscores
          sigma0 == Val(call).sigma0
          outcome == Val(ret).outcome
          F == Val(ret).cdf
      IN  ValidZScores(zscores, sigma0) =>
            /\ outcome.ok
            /\ outcome.value.chi2_stat = SumOfSquaredDeviations(zscores, sigma0)
            /\ RLeq(Float(0), outcome.value.chi2_stat)
            /\ outcome.value.p_value = 2 * Min(F, PScale - F)
            /\ outcome.value.p_value \in 0..PScale

\* the z-scores 1, -1, 3/2 with sigma0 = 2: the statistic is 7/8, and with
\* F = 3/4 the upper tail gives the p-value 1/2
C22_Witness ==
    /\ Returned("chi_square_variance_test")
    /\ Val(call).zscores = <<Float(1), Float(-1), Rat(3, 2)>>
    /\ Val(call).sigma0 = 2
    /\ Val(ret).cdf = 3 * (PScale \div 4)
    /\ Val(ret).outcome.ok
    /\ Val(ret).outcome.value.chi2_stat = Rat(7, 8)
    /\ Val(ret).outcome.value.p_value = PScale \div 2

\* the whole number a count of a direct call is
Whole(x) == x.num \div x.den

\* C23: contingency_table_binary returns a table of one row of 2 whole
\* numbers per group, in the order of the keys of group_count, the row of
\* group g being [count_g, total_g - count_g]; it returns one whenever no
\* count exceeds its total, and when moreover no count is negative every
\* entry is non-negative and each row sums to the total of its group.
C23_ContingencyTable ==
    Returned("contingency_table_binary") =>
      LET group_count == Val(call).group_count
          group_total == Val(call).group_total
          labels == group_count.keys
          outcome == Val(ret).outcome
          count(i) == Whole(group_count.at[labels[i]])
          total(i) == group_total.at[labels[i]]
      IN  /\ (\A i \in DOMAIN labels : count(i) <= total(i)) => outcome.ok
          /\ outcome.ok =>
               /\ Len(outcome.value) = Len(labels)
               /\ \A i \in DOMAIN labels :
                    /\ outcome.value[i] = <<count(i), total(i) - count(i)>>
                    /\ (0 <= count(i) /\ count(i) <= total(i)) =>
                         /\ outcome.value[i][1] >= 0
                         /\ outcome.value[i][2] >= 0
                         /\ outcome.value[i][1] + outcome.value[i][2] = total(i)

\* the counts {g2: 2, g1: 0} with the totals {g1: 4, g2: 4}: the row of g2
\* comes first
C23_Witness ==
    /\ Returned("contingency_table_binary")
    /\ Val(call).group_count.keys = <<"g2", "g1">>
    /\ Val(call).group_total.keys = <<"g1", "g2">>
    /\ Val(ret).outcome.ok
    /\ Val(ret).outcome.value = <<<<2, BaseSize - 2>>, <<0, BaseSize>>>>

\* ------------------------------------------------------------------------
\* C24
\* ------------------------------------------------------------------------
\* the rows the Fisher loop is given in which the count of some group
\* exceeds the sample size of the group
ExcessRows ==
    {i \in CompleteCategoricalRows :
       \E k \in DOMAIN json_data.groups :
         CountsOfRow(i)[k] > json_data.groups[k].sample_size}

ExceedsTotal == "success count exceeds total count"

\* C24: when the categorical stage is entered on an input with a row whose
\* count exceeds the total of some group, the run fails; no entry is ever
\* made for such a row and no Fisher test is run on it (every Fisher test run
\* made its entry), and when the failure is that of the table, the table
\* that failed was built after the last Fisher test.
C24_ExcessCountFails ==
    (Entered("CATEGORICAL_TEST") /\ ExcessRows # {}) =>
      /\ \A i \in ExcessRows : <<"fisher_test", i - 1>> \notin DOMAIN out
      /\ calls.fisher_exact = Cardinality(FisherKeys(out))
      /\ pc \in Terminal =>
           /\ pc = "FAILED"
           /\ result = NoResult
           /\ error \in {ExceedsTotal, "KeyError"}
           /\ error = ExceedsTotal => calls.contingency = calls.fisher_exact + 1
      /\ (pc \in Terminal /\ FrameGroups = GroupIds) => error = ExceedsTotal

\* the second of two complete rows has a count above the sample size: the
\* first row got its entry, the second none, and the run failed on its table
C24_Witness ==
    /\ pc = "FAILED"
    /\ error = ExceedsTotal
    /\ ExcessRows = {2}
    /\ CompleteCategoricalRows = {1, 2}
    /\ FisherKeys(out) = {<<"fisher_test", 0>>}
    /\ calls.contingency = 2

\* ------------------------------------------------------------------------
\* C25
\* ------------------------------------------------------------------------
\* the field of an entry that a column of the table is named after
FieldOf(entry, f) ==
    CASE f = "mean" -> entry.mean
      [] f = "sd" -> entry.sd
      [] f = "95CI_lower" -> entry.ci_lower
      [] f = "95CI_upper" -> entry.ci_upper
      [] f = "count" -> entry.count

\* the groups a row has an entry for
GroupsOf(row) == {row.values[j].group_id : j \in DOMAIN row.values}

Alpha == 5

\* bool(x) of an optional number and of an optional string
TruthyNumber(x) == x # Null /\ Val(x) # 0
TruthyString(x) == x # Null /\ Val(x) # ""

\* a result bundle as the report reads it: the combined p-value, that of the
\* chi-squared test, those of the Fisher tests, each key there or not
Bundle(combined, chi_squared, fisher) ==
    [combined |-> combined, chi_squared |-> chi_squared, fisher |-> fisher]

\* bool(test_output): None and the empty dict are false
TruthyOutput(test_output) ==
    /\ test_output # Null
    /\ Val(test_output) # Bundle(Null, Null, <<>>)

\* report.py 16-29: PaperResult(paper_id=..., error=...) with its defaults
PaperResult(paper_id, error_of) ==
    [paper_id |-> paper_id, combined_p_value |-> Null, chi_squared_p_value |-> Null,
     fisher_tests_count |-> 0, fisher_p_values |-> <<>>, plot_path |-> Null,
     error |-> error_of]

\* a faulty collector: a failed item is not recorded
add_result_of_successes(results, paper_id, test_output, plot_path, error_of) ==
    IF error_of # Null THEN results
    ELSE Append(results,
                [PaperResult(paper_id, error_of) EXCEPT
                   !.combined_p_value = Val(test_output).combined,
                   !.chi_squared_p_value = Val(test_output).chi_squared,
                   !.fisher_tests_count = Len(Val(test_output).fisher),
                   !.fisher_p_values = Val(test_output).fisher,
                   !.plot_path = plot_path])

\* report.py 38-85: self.results after add_result
add_result(results, paper_id, test_output, plot_path, error_of) ==
    LET new == PaperResult(paper_id, error_of)
    IN  Append(results,
               IF TruthyOutput(test_output) /\ ~TruthyString(error_of)
               THEN [new EXCEPT
                       !.combined_p_value = Val(test_output).combined,
                       !.chi_squared_p_value = Val(test_output).chi_squared,
                       !.fisher_tests_count = Len(Val(test_output).fisher),
                       !.fisher_p_values = Val(test_output).fisher,
                       !.plot_path = plot_path]
               ELSE new)

\* the positions of a sequence whose element satisfies a test
Where(seq, Test(_)) == {i \in DOMAIN seq : Test(seq[i])}

\* report.py 96-99: the results get_summary_stats counts as flagged
Flagged(r) ==
    r.error = Null /\ r.combined_p_value # Null /\ Val(r.combined_p_value) < Alpha

\* report.py 87-107
get_summary_stats(results) ==
    LET successful == Where(results, LAMBDA r : r.error = Null)
        flagged == Where(results, Flagged)
    IN  [total_papers |-> Len(results),
         successful_analyses |-> Cardinality(successful),
         failed_analyses |-> Len(results) - Cardinality(successful),
         flagged_papers |-> Cardinality(flagged)]

\* report.py 158-177: the row of a result in the overview table ("-" is Null)
OverviewRow(r) ==
    IF TruthyString(r.error)
    THEN [paper_id |-> r.paper_id, combined_p |-> Null, status |-> "Error"]
    ELSE [paper_id |-> r.paper_id,
          combined_p |-> IF TruthyNumber(r.combined_p_value)
                         THEN r.combined_p_value ELSE Null,
          status |-> IF TruthyNumber(r.combined_p_value)
                        /\ Val(r.combined_p_value) < Alpha
                     THEN "Flagged" ELSE "OK"]

\* report.py 110-234: the summary and the overview table of the report
generate_markdown_report(results) ==
    [stats |-> get_summary_stats(results),
     overview |-> [i \in DOMAIN results |-> OverviewRow(results[i])]]

\* the bundles run_test_pipeline may return: with a combined p-value of 0,
\* 0.01, 0.05 or 1, and the empty one
Bundles ==
    {Bundle(Null, Null, <<>>),
     Bundle(Some(0), Null, <<0>>),
     Bundle(Some(1), Some(1), <<>>),
     Bundle(Some(Alpha), Some(50), <<Alpha>>),
     Bundle(Some(100), Null, <<100, 100>>)}

\* what the calls made on an item do: run_test_pipeline raises or returns a
\* bundle, and plot_test_output may raise on one of the bundles
ItemData ==
    {[outcome |-> Raise("Total sample size is zero. Cannot proceed with analysis."),
      plot_raises |-> FALSE]}
      \cup {[outcome |-> Return(b), plot_raises |-> FALSE] : b \in Bundles}
      \cup {[outcome |-> Return(Bundle(Some(1), Some(1), <<>>)), plot_raises |-> TRUE]}

\* main.py 163-189: the items, numbered in list order
ItemLists ==
    UNION {[1..n -> ItemData] : n \in 1..MaxItems}

AnalyzeInit ==
    /\ NoPipeline
    /\ NoLibrary /\ NoRepair /\ NoDatabase
    /\ cli \in {Some(a) : a \in [report : BOOLEAN, report_plots : BOOLEAN, plot : BOOLEAN]}
    /\ items \in {[i \in DOMAIN l |-> [paper_id |-> i, data |-> l[i]]] : l \in ItemLists}
    /\ item_i = 0
    /\ report_collector = IF Val(cli).report THEN Some(<<>>) ELSE Null
    /\ processed = <<>>
    /\ report = Null

\* f"paper_{paper_id}_plots.png" in the figures directory
PlotPath(paper_id) == Some(<<"figures", paper_id>>)

\* main.py 201-232: one pass of the loop over the items
AnalyzeItem ==
    /\ cli # Null
    /\ item_i < Len(items)
    /\ LET item == items[item_i + 1]
           run == item.data.outcome
           output == IF run.ok THEN Some(run.value) ELSE Null
           error_msg == IF run.ok THEN Null ELSE Some(run.error)
           report_plots_enabled == Val(cli).report /\ Val(cli).report_plots
           plot_path ==
               IF TruthyOutput(output) /\ ~TruthyString(error_msg) /\ report_plots_enabled
               THEN PlotPath(item.paper_id) ELSE Null
           plot_enabled == Val(cli).plot /\ Len(items) = 1
           plotted ==
               /\ TruthyOutput(output) /\ ~TruthyString(error_msg)
               /\ report_plots_enabled \/ plot_enabled
       IN  /\ processed' = Append(processed,
                                  [paper_id |-> item.paper_id, plotted |-> plotted])
           /\ report_collector' =
                IF report_collector # Null
                THEN Some(add_result(Val(report_collector), item.paper_id, output,
                                     plot_path, error_msg))
                ELSE Null
    /\ item_i' = item_i + 1
    /\ UNCHANGED <<pipeline, library, repair, database, cli, items, report>>

\* main.py 235-237: the report, if one was asked for
GenerateReport ==
    /\ cli # Null
    /\ item_i = Len(items)
    /\ report_collector # Null
    /\ report = Null
    /\ report' = Some(generate_markdown_report(Val(report_collector)))
    /\ UNCHANGED <<pipeline, library, repair, database, cli, items, item_i,
                   report_collector, processed>>

AnalyzeNext ==
    \/ AnalyzeItem
    \/ GenerateReport

AnalyzeSpec == AnalyzeInit /\ [][AnalyzeNext]_vars

\* ------------------------------------------------------------------------
\* C26
\* ------------------------------------------------------------------------
\* the items the loop has been through
Done == 1..item_i

\* C26: in cmd_analyze a failure of run_test_pipeline or of plotting on an
\* item does not end the batch: the loop goes through the items in list
\* order, calling run_test_pipeline on each, the report is written only after
\* the last item, and when a report is asked for the collector holds one
\* result per item gone through, in order; the result of a failed item has
\* the error message and nothing of a test output, that of a successful item
\* has no error and the values of its bundle.
C26_BatchGoesOn ==
    cli # Null =>
      /\ Len(processed) = item_i
      /\ \A i \in Done : processed[i].paper_id = items[i].paper_id
      /\ report # Null => item_i = Len(items)
      /\ Val(cli).report =>
           /\ report_collector # Null
           /\ Len(Val(report_collector)) = item_i
           /\ \A i \in Done :
                LET r == Val(report_collector)[i]
                    run == items[i].data.outcome
                IN  /\ r.paper_id = items[i].paper_id
                    /\ ~run.ok =>
                         /\ r.error = Some(run.error)
                         /\ r.combined_p_value = Null
                         /\ r.chi_squared_p_value = Null
                         /\ r.fisher_tests_count = 0
                         /\ r.fisher_p_values = <<>>
                         /\ r.plot_path = Null
                    /\ run.ok =>
                         /\ r.error = Null
                         /\ r.combined_p_value = run.value.combined
                         /\ r.chi_squared_p_value = run.value.chi_squared
                         /\ r.fisher_p_values = run.value.fisher
                         /\ r.fisher_tests_count = Len(run.value.fisher)

\* three items, the first failing in run_test_pipeline and the second in
\* plotting: the third was analyzed, and the report holds the three results
C26_Witness ==
    /\ cli # Null
    /\ Len(items) = 3
    /\ ~items[1].data.outcome.ok
    /\ items[2].data.plot_raises
    /\ items[3].data.outcome.ok
    /\ report # Null
    /\ processed[2].plotted
    /\ Len(Val(report_collector)) = 3
    /\ Val(report_collector)[1].error # Null
    /\ Val(report_collector)[3].combined_p_value = items[3].data.outcome.value.combined

\* ------------------------------------------------------------------------
\* table_extraction/llm/base.py: LLMBackend.extract_with_repair.  The
\* backend's extract and validate_fn are the environment: a response is
\* incomplete, or without JSON, or with JSON that validate_fn accepts or
\* rejects; extract may also raise.
\* ------------------------------------------------------------------------
\* ExtractionResponse(json_data, context, error, is_complete); the JSON is
\* told apart by the attempt it answers
Response(data, context, error_of, is_complete) ==
    [json_data |-> data, context |-> context, error |-> error_of,
     is_complete |-> is_complete]

Json(n, valid) == [table1 |-> n, valid |-> valid]

\* what extract may return at the n-th call
Responses(n) ==
    {Response(Null, n, Some("truncated"), FALSE),
     Response(Null, n, Some("refusal"), TRUE),
     Response(Null, n, Null, TRUE),
     Response(Some(Json(n, FALSE)), n, Null, TRUE),
     Response(Some(Json(n, TRUE)), n, Null, TRUE)}

\* validate_fn(json_data): the ValidationError it raises, if any
validate_fn(data) ==
    IF data.valid THEN Return(Null) ELSE Raise("ValidationError")

\* base.py 124-142: the request of an attempt
Request(n, last_error, last_response) ==
    IF n = 1 THEN [repair |-> FALSE, error_messages |-> Null, previous_context |-> Null]
    ELSE [repair |-> TRUE,
          error_messages |-> IF TruthyString(last_error) THEN Val(last_error) ELSE "",
          previous_context |-> IF last_response # Null THEN Some(Val(last_response).context)
                               ELSE Null]

\* a faulty loop: an incomplete response is tried again
handle_response_retrying(resp) ==
    IF ~resp.is_complete \/ resp.json_data = Null
    THEN [outcome |-> Null,
          error_message |-> IF TruthyString(resp.error) THEN resp.error
                            ELSE Some("No JSON returned")]
    ELSE IF validate_fn(Val(resp.json_data)).ok
    THEN [outcome |-> Some(Return(Val(resp.json_data))), error_message |-> Null]
    ELSE [outcome |-> Null, error_message |-> Some(validate_fn(Val(resp.json_data)).error)]

\* base.py 146-161: what the loop does with a response: how the call ends,
\* if it does, and the error message kept for the next attempt otherwise
handle_response(resp) ==
    IF ~resp.is_complete
    THEN [outcome |-> Some(Raise("RuntimeError: Incomplete response")),
          error_message |-> Null]
    ELSE IF resp.json_data = Null
    THEN [outcome |-> Null,
          error_message |-> IF TruthyString(resp.error) THEN resp.error
                            ELSE Some("No JSON returned")]
    ELSE IF validate_fn(Val(resp.json_data)).ok
    THEN [outcome |-> Some(Return(Val(resp.json_data))), error_message |-> Null]
    ELSE [outcome |-> Null, error_message |-> Some(validate_fn(Val(resp.json_data)).error)]

RepairInit ==
    /\ NoPipeline
    /\ NoLibrary /\ NoAnalysis /\ NoDatabase
    /\ max_attempts \in 0..MaxAttempts
    /\ attempt = 0
    /\ response = Null
    /\ error_message = Null
    /\ exchanges = <<>>
    /\ extraction = Null

\* base.py 123-161: one pass of the loop in which extract returns
Attempt ==
    /\ extraction = Null
    /\ attempt < max_attempts
    /\ attempt' = attempt + 1
    /\ \E resp \in Responses(attempt + 1) :
         LET request == Request(attempt + 1, error_message, response)
             handled == handle_response(resp)
         IN  /\ exchanges' = Append(exchanges, [request |-> request, response |-> Some(resp)])
             /\ response' = Some(resp)
             /\ extraction' = handled.outcome
             /\ error_message' = IF handled.outcome = Null THEN handled.error_message
                                 ELSE error_message
    /\ UNCHANGED <<pipeline, library, analysis, database, max_attempts>>

\* base.py 144: extract raises, and the exception leaves the loop
ExtractRaises ==
    /\ extraction = Null
    /\ attempt < max_attempts
    /\ attempt' = attempt + 1
    /\ exchanges' = Append(exchanges,
                           [request |-> Request(attempt + 1, error_message, response),
                            response |-> Null])
    /\ extraction' = Some(Raise("backend error"))
    /\ UNCHANGED <<pipeline, library, analysis, database, max_attempts, response,
                   error_message>>

\* base.py 163-164: the loop is over without a valid output
GiveUp ==
    /\ extraction = Null
    /\ attempt >= max_attempts
    /\ extraction' = Some(Raise("RuntimeError: Failed to produce valid output"))
    /\ UNCHANGED <<pipeline, library, analysis, database, max_attempts, attempt,
                   response, error_message, exchanges>>

RepairNext ==
    \/ Attempt
    \/ ExtractRaises
    \/ GiveUp

\* the call runs on: a step that can be taken is taken
RepairSpec == RepairInit /\ [][RepairNext]_vars /\ WF_vars(RepairNext)

\* ------------------------------------------------------------------------
\* C27
\* ------------------------------------------------------------------------
Ended == extraction # Null

\* the response of the i-th call of extract: Null when extract raised
ResponseTo(i) == exchanges[i].response

Incomplete(i) == ResponseTo(i) # Null /\ ~Val(ResponseTo(i)).is_complete

Accepted(i) ==
    /\ ResponseTo(i) # Null
    /\ Val(ResponseTo(i)).is_complete
    /\ Val(ResponseTo(i)).json_data # Null
    /\ Val(Val(ResponseTo(i)).json_data).valid

IncompleteError == Raise("RuntimeError: Incomplete response")
ExhaustedError == Raise("RuntimeError: Failed to produce valid output")

\* extract is called once per attempt and at most max_attempts times; every
\* attempt but the last got a complete response that was not accepted; the
\* call has ended exactly as the last response commands
RepairLoopSound ==
    /\ Len(exchanges) = attempt
    /\ attempt <= max_attempts
    /\ \A i \in DOMAIN exchanges :
         /\ i < attempt => (ResponseTo(i) # Null /\ ~Incomplete(i) /\ ~Accepted(i))
         /\ Incomplete(i) => extraction = Some(IncompleteError)
         /\ Accepted(i) => extraction = Some(Return(Val(Val(ResponseTo(i)).json_data)))
    /\ Ended =>
         LET outcome == Val(extraction)
         IN  /\ outcome.ok => (attempt > 0 /\ Accepted(attempt))
             /\ outcome = IncompleteError => (attempt > 0 /\ Incomplete(attempt))
             /\ outcome = ExhaustedError =>
                  /\ attempt = max_attempts
                  /\ \A i \in DOMAIN exchanges : ~Incomplete(i) /\ ~Accepted(i)
             /\ \/ outcome.ok
                \/ outcome \in {IncompleteError, ExhaustedError}
                \/ (attempt > 0 /\ ResponseTo(attempt) = Null)

\* C27: extract_with_repair calls extract at most max_attempts times and
\* ends: it returns the JSON of the first attempt validate_fn accepts, never
\* JSON it rejected; it raises RuntimeError on an incomplete response without
\* a further attempt, and RuntimeError once max_attempts attempts gave no
\* valid output (an exception of extract itself leaves the call as it is).
C27_RepairLoopEnds == []RepairLoopSound /\ <>Ended

\* no JSON at the first attempt, rejected JSON at the second, accepted JSON
\* at the third of four: the third is returned, and its request carried the
\* error of the second
C27_Witness ==
    /\ max_attempts = 4
    /\ attempt = 3
    /\ extraction = Some(Return(Json(3, TRUE)))
    /\ Val(ResponseTo(1)).json_data = Null
    /\ Val(ResponseTo(2)).json_data = Some(Json(2, FALSE))
    /\ exchanges[3].request.error_messages = "ValidationError"
    /\ exchanges[3].request.previous_context = Some(2)

\* ------------------------------------------------------------------------
\* database/operations.py add_extraction on the extractions table of
\* database/models.py.  Every call runs in a session of its own and commits
\* before it returns, so the calls of a sequence act one after another.
\* ------------------------------------------------------------------------
PdfSources == {"a.pdf", "b.pdf"}
Models == {"gpt", "claude"}
ExtractionStatus == {"SUCCESS", "FAILED"}
Table1Jsons == {Null, Some(1)}
ErrorMsgs == {Null, Some("error")}

\* the arguments of a call: table1_json and error_msg default to None, and a
\* call passes at most one of them, with either status
AddCalls ==
    {c \in [pdf_source : PdfSources, model : Models, status : ExtractionStatus,
            table1_json : Table1Jsons, error_msg : ErrorMsgs] :
        c.table1_json = Null \/ c.error_msg = Null}

\* session.query(Extraction).filter(pdf_source ==, model ==): the rows found
Existing(table, pdf_source, model) ==
    {e \in table : e.pdf_source = pdf_source /\ e.model = model}

\* the primary key the database gives a new row: one more than the largest
NextId(table) ==
    IF table = {} THEN 1
    ELSE (CHOOSE i \in {e.id : e \in table} : \A e \in table : e.id <= i) + 1

\* a slip: the update branch leaves table1_json alone when none is given
add_extraction_keeping_json(table, c, now) ==
    LET found == Existing(table, c.pdf_source, c.model)
    IN  IF found # {}
        THEN LET existing == CHOOSE e \in found : TRUE
             IN  (table \ {existing}) \cup
                   {[existing EXCEPT !.status = c.status,
                                     !.extracted_at = now,
                                     !.table1_json =
                                         IF c.table1_json = Null THEN @
                                         ELSE c.table1_json,
                                     !.error_msg = c.error_msg]}
        ELSE table \cup
               {[id |-> NextId(table), pdf_source |-> c.pdf_source,
                 model |-> c.model, status |-> c.status, extracted_at |-> now,
                 table1_json |-> c.table1_json, error_msg |-> c.error_msg]}

\* add_extraction: the table after the call c commits at time now.  .first()
\* takes one of the rows found; the row keeps its id, pdf_source and model
add_extraction(table, c, now) ==
    LET found == Existing(table, c.pdf_source, c.model)
    IN  IF found # {}
        THEN LET existing == CHOOSE e \in found : TRUE
             IN  (table \ {existing}) \cup
                   {[existing EXCEPT !.status = c.status,
                                     !.extracted_at = now,
                                     !.table1_json = c.table1_json,
                                     !.error_msg = c.error_msg]}
        ELSE table \cup
               {[id |-> NextId(table), pdf_source |-> c.pdf_source,
                 model |-> c.model, status |-> c.status, extracted_at |-> now,
                 table1_json |-> c.table1_json, error_msg |-> c.error_msg]}

\* a fresh database: init_db has created an empty table
StoreInit ==
    /\ NoPipeline
    /\ NoLibrary /\ NoAnalysis /\ NoRepair
    /\ extractions = {}
    /\ add_calls = <<>>

\* one call of add_extraction; the clock reads the number of the call
AddExtraction ==
    /\ Len(add_calls) < MaxCalls
    /\ \E c \in AddCalls :
         /\ extractions' = add_extraction(extractions, c, Len(add_calls) + 1)
         /\ add_calls' = Append(add_calls, c)
    /\ UNCHANGED <<pipeline, library, analysis, repair>>

StoreNext == AddExtraction

StoreSpec == StoreInit /\ [][StoreNext]_vars

\* ------------------------------------------------------------------------
\* C28
\* ------------------------------------------------------------------------
PairOf(x) == <<x.pdf_source, x.model>>

\* the numbers of the calls made for a pair
CallsFor(pair) == {i \in DOMAIN add_calls : PairOf(add_calls[i]) = pair}

MostRecent(pair) ==
    add_calls[CHOOSE i \in CallsFor(pair) : \A j \in CallsFor(pair) : j <= i]

\* one record for every pair a call named, none for any other pair, and the
\* record holds what the latest call for its pair passed
OneRecordPerPair ==
    /\ \A e1, e2 \in extractions : PairOf(e1) = PairOf(e2) => e1 = e2
    /\ \A e \in extractions :
         /\ CallsFor(PairOf(e)) # {}
         /\ e.status = MostRecent(PairOf(e)).status
         /\ e.table1_json = MostRecent(PairOf(e)).table1_json
         /\ e.error_msg = MostRecent(PairOf(e)).error_msg
    /\ \A i \in DOMAIN add_calls :
         \E e \in extractions : PairOf(e) = PairOf(add_calls[i])

\* a call leaves the records of the pairs it does not name as they are
OtherPairsUnchanged ==
    add_calls' # add_calls =>
        \A e \in extractions :
            PairOf(e) # PairOf(add_calls'[Len(add_calls')]) => e \in extractions'

\* C28: after any sequence of add_extraction calls the table holds at most
\* one record per (pdf_source, model), the record carries the status,
\* table1_json and error_msg of the latest call for that pair, and a call
\* does not change the records of other pairs.
C28_Upsert == []OneRecordPerPair /\ [][OtherPairsUnchanged]_vars

\* a failed extraction of a.pdf, then one of b.pdf, then a.pdf again with
\* success: two records, a.pdf's updated in place
C28_Witness ==
    /\ Len(add_calls) = 3
    /\ add_calls[1] = [pdf_source |-> "a.pdf", model |-> "gpt", status |-> "FAILED",
                       table1_json |-> Null, error_msg |-> Some("error")]
    /\ PairOf(add_calls[2]) = <<"b.pdf", "gpt">>
    /\ add_calls[3] = [pdf_source |-> "a.pdf", model |-> "gpt", status |-> "SUCCESS",
                       table1_json |-> Some(1), error_msg |-> Null]
    /\ Cardinality(extractions) = 2
    /\ \E e \in extractions :
         /\ e.id = 1 /\ e.status = "SUCCESS" /\ e.extracted_at = 3
         /\ e.table1_json = Some(1) /\ e.error_msg = Null

\* ------------------------------------------------------------------------
\* Two calls of run_test_pipeline on the same input, categorical flag and
\* seed: the first with skip_continuous_var = False, the second with True
\* ------------------------------------------------------------------------
\* the first call: the continuous stage is not skipped
FlagPairInit ==
    /\ \E ng \in 0..MaxGroups, nr \in 0..MaxRows :
         \E kinds \in [1..nr -> BaseKinds], sizes \in SizeChoices(ng) :
           json_data = [groups |-> Groups(ng, sizes),
                        rows |-> Table(ng, nr, kinds, NoDeviation)]
    /\ skip_continuous_var = FALSE
    /\ skip_categorical_var \in BOOLEAN
    /\ random_seed \in Seeds
    /\ pc = "INIT"
    /\ df = EmptyFrame
    /\ sample_size = EmptyDict
    /\ total_sample_size = 0
    /\ group_ids = <<>>
    /\ pvals = <<>>
    /\ out = NoBundle
    /\ cont_df = EmptyFrame
    /\ cat_df = EmptyFrame
    /\ cat_i = 0
    /\ method_exact_fisher = Null
    /\ result = NoResult
    /\ error = NoError
    /\ stages = <<>>
    /\ calls = NoCalls
    /\ previous = Null
    /\ NoOutside

\* the caller calls run_test_pipeline again with skip_continuous_var = True
\* and everything else as it was
RerunSkippingContinuous ==
    /\ pc \in {"DONE", "FAILED"}
    /\ previous = Null
    /\ previous' = Some([random_seed |-> random_seed, result |-> result,
                         error |-> error, out |-> out])
    /\ skip_continuous_var' = TRUE
    /\ pc' = "INIT"
    /\ df' = EmptyFrame
    /\ sample_size' = EmptyDict
    /\ total_sample_size' = 0
    /\ group_ids' = <<>>
    /\ pvals' = <<>>
    /\ out' = NoBundle
    /\ cont_df' = EmptyFrame
    /\ cat_df' = EmptyFrame
    /\ cat_i' = 0
    /\ method_exact_fisher' = Null
    /\ result' = NoResult
    /\ error' = NoError
    /\ stages' = <<>>
    /\ calls' = NoCalls
    /\ UNCHANGED <<json_data, skip_categorical_var, random_seed, outside>>

FlagPairNext ==
    \/ Project
    \/ SkipContinuous
    \/ ContinuousTest
    \/ SkipCategorical
    \/ CategoricalTest
    \/ FisherRowAgain
    \/ ValidatePvalues
    \/ Combine
    \/ RerunSkippingContinuous

FlagPairSpec == FlagPairInit /\ [][FlagPairNext]_vars

\* ------------------------------------------------------------------------
\* C29
\* ------------------------------------------------------------------------
NoContinuousRow ==
    \A i \in DOMAIN json_data.rows : json_data.rows[i].variable_type # "Continuous"

NonNegativeSizes == \A gid \in GroupIds : SizeOf(gid) >= 0
PositiveSizes == \A gid \in GroupIds : SizeOf(gid) > 0

\* the call without the flag has ended, and the call with it after it
FlagPairEnded == BothEnded /\ skip_continuous_var

\* the two calls draw the same numbers in the Monte Carlo Fisher test
SameGenerator == random_seed # Null \/ ~MonteCarloStage

ZeroSizeTellsTheCallsApart ==
    /\ FlagPairEnded
    /\ NoContinuousRow
    /\ TotalSize > 0
    /\ json_data.rows # <<>>
    /\ Val(previous).error = "All sample sizes must be positive"
    /\ error # Val(previous).error

\* ------------------------------------------------------------------------
\* C30
\* ------------------------------------------------------------------------
\* the rows of the overview table of the report with the status Flagged
FlaggedRows ==
    {i \in DOMAIN Val(report).overview : Val(report).overview[i].status = "Flagged"}

\* C30: in the report of generate_markdown_report a result's row of the
\* overview table has the status Flagged exactly when get_summary_stats
\* counts the result in flagged_papers (no error, a combined p-value, and
\* that below 0.05), so the number of Flagged rows is flagged_papers, for
\* every combined p-value in [0, 1].
C30_FlaggedRowsMatchCount ==
    report # Null =>
      /\ \A i \in DOMAIN Val(report_collector) :
           i \in FlaggedRows <=> Flagged(Val(report_collector)[i])
      /\ Cardinality(FlaggedRows) = Val(report).stats.flagged_papers

\* a batch of one item whose combined p-value is 0: the summary counts one
\* flagged paper and the overview table has no Flagged row
ZeroPValueRowIsOK ==
    /\ report # Null
    /\ Len(items) = 1
    /\ Val(report_collector)[1].combined_p_value = Some(0)
    /\ Val(report).stats.flagged_papers = 1
    /\ Val(report).overview[1].status = "OK"
    /\ Val(report).overview[1].combined_p = Null


=============================================================================
